---- MODULE Spec2Model ----
(***************************************************************************)
(* Optical gate access: an 8-bit value is sent as timed ON/OFF light       *)
(* symbols (sendGateFlash, flashScreen, flashScreenRAF) and read back from  *)
(* brightness samples by a tick-driven state machine (GateFlashReceiver,    *)
(* FlashDecoder).                                                           *)
(*                                                                          *)
(* Time is in milliseconds.  The receiver reads the clock only as           *)
(* elapsed = performance.now() - lastStateChange, so the model keeps that   *)
(* difference (variable elapsed); "lastStateChange = now" is elapsed' = 0.  *)
(* A null handle (animationFrameId, timeoutId) is 0, as the code tests it   *)
(* by truthiness; a null baseline is the empty tuple.                       *)
(***************************************************************************)
EXTENDS Integers, Sequences, FiniteSets, TLC

VARIABLES
    \* pure-function harness: the input drawn and the result of the call made
    pfIn, pfOut,
    \* GateFlashReceiver fields
    state, bits, currentBitIndex, elapsed, animationFrameId,
    baselineBrightness, baselineSamples, isCalibrated,
    \* the browser's list of animation frame callbacks of the receiver
    rafPending,
    \* what the receiver's callbacks were called with since the last start(),
    \* and whether stop() ran since the last start()
    decoded, errors, stopped,
    \* the optical link: the byte on the wire, the receiver's tick period,
    \* the quiet period before the frame and the stream time of the next sample
    linkValue, linkPeriod, linkDelay, linkTime,
    \* a transmission: which sender runs (sendGateFlash, flashScreenRAF or
    \* flashScreen), the byte it sends, and the sender's closure variables;
    \* txStarted is startTime !== null, stepElapsed the last tick's
    \* timestamp - stepStartTime, txHandle the pending animationFrameId or
    \* timeoutId, txPending the browser's pending callbacks of the sender
    txVariant, txValue, currentStep, txStarted, stepElapsed, isCancelled,
    txHandle, txPending,
    \* the overlay element's style, and the number of calls of onComplete
    overlay, onCompleteCalls,
    \* GateSimulator: the camera hook's isInitialized, whether receiverRef
    \* holds a receiver, the `challenge` seen by the handleResponseReceived
    \* that receiver was constructed with, the isInitialized seen by the
    \* onComplete callback of the running transmission, and the component's
    \* React state (null is -1, a null accessResult is "null")
    isInitialized, hasReceiver, handlerChallenge, completeInitialized,
    challenge, receivedResponse, accessResult, isSending, isListening,
    \* FlashDecoder: the handle of its setInterval timer (null is 0) and the
    \* browser's active interval timers of the decoder.  Its other fields
    \* (state, bits, currentBitIndex, lastStateChange) have the names and the
    \* constructor values of the receiver's, and where a FlashDecoder runs in
    \* place of the receiver the variables of those names hold them
    sampleInterval, intervals,
    \* the time since the receiver entered READ_BITS in the running session,
    \* measured by the environment that ticks it (0 before)
    readingFor,
    \* whether the caller holds the cancel function that an earlier call of
    \* sendGateFlash returned
    heldCancel,
    \* the grey level (0 black .. 255 white) of the overlay when the camera
    \* last looked at it, -1 before the first look
    seenLevel,
    \* PhoneApp: remainingTime of the countdown whose interval timer is
    \* active (countdownIntervalRef), 0 when none is
    remainingTime,
    \* PhoneApp: the pending setTimeout(() => reset(), 3000) timers, counted
    \* apart as set before (old) and after (new) the last run of reset()
    resetTimers,
    \* useCamera: where the latest call of initializeCamera() stands ("idle"
    \* before the first, then "getUserMedia", "metadata", "done", "failed") and
    \* how many calls were made; a call's stream carries the call's number
    camPc, camCalls,
    \* useCamera: streamRef.current and videoRef.current.srcObject (0 for
    \* null), the streams whose tracks run, whether the component is mounted
    \* (videoRef.current is the video element), and whether stopCamera() has
    \* run since initializeCamera() was last called
    streamRef, srcObject, liveTracks, mounted, stoppedSince

rxVars == <<state, bits, currentBitIndex, elapsed, animationFrameId,
            baselineBrightness, baselineSamples, isCalibrated, rafPending,
            decoded, errors, stopped>>
linkVars == <<linkValue, linkPeriod, linkDelay, linkTime>>
pfVars == <<pfIn, pfOut>>
txVars == <<txVariant, txValue, currentStep, txStarted, stepElapsed, isCancelled,
            txHandle, txPending, overlay, onCompleteCalls>>
gateVars == <<isInitialized, hasReceiver, handlerChallenge, completeInitialized,
              challenge, receivedResponse, accessResult, isSending, isListening>>
decVars == <<sampleInterval, intervals>>
phoneVars == <<remainingTime, resetTimers>>
camVars == <<camPc, camCalls, streamRef, srcObject, liveTracks, mounted, stoppedSince>>
appVars == <<readingFor, heldCancel, seenLevel, phoneVars, camVars>>
vars == <<pfVars, rxVars, linkVars, txVars, gateVars, decVars, appVars>>

(***************************************************************************)
(* TIMING_CONFIG                                                            *)
(***************************************************************************)
START_DURATION == 1000
BIT_DURATION == 300
END_DURATION == 1000
BRIGHTNESS_CHANGE_THRESHOLD == 50
BASELINE_SAMPLES == 30

(***************************************************************************)
(* Bounds of the model                                                      *)
(***************************************************************************)
\* longest bit sequence handed to the decoders
MaxBitsLen == 9
\* largest element of such a sequence (0 and 1 are bits, the rest is not)
MaxBitVal == 2
\* most animation frame callbacks pending at once
MaxChains == 2
\* the clock difference saturates here, above every threshold of the code
ElapsedCap == 1600
\* brightness of the camera image with the sender's screen black / white
OffLevel == 20
OnLevel == 90

Byte == 0..255
Min(a, b) == IF a < b THEN a ELSE b

\* 2^n
RECURSIVE Pow2(_)
Pow2(n) == IF n = 0 THEN 1 ELSE 2 * Pow2(n - 1)

\* JavaScript a | b on non-negative integers
RECURSIVE BitOr(_, _)
BitOr(a, b) ==
    IF a = 0 THEN b
    ELSE IF b = 0 THEN a
    ELSE 2 * BitOr(a \div 2, b \div 2) + (IF a % 2 = 1 \/ b % 2 = 1 THEN 1 ELSE 0)

\* sum of a sequence of numbers (Array.reduce((a, b) => a + b, 0))
RECURSIVE Sum(_)
Sum(s) == IF s = <<>> THEN 0 ELSE Head(s) + Sum(Tail(s))

(***************************************************************************)
(* Byte <-> bit codec                                                       *)
(***************************************************************************)
\* numberToBits with the loop running i = 0..7 (least significant bit first)
numberToBitsLsbFirst(value) == [k \in 1..8 |-> (value \div Pow2(k - 1)) % 2]

\* for (i = 7; i >= 0; i--) bits.push((value >> i) & 1)
numberToBits(value) == [k \in 1..8 |-> (value \div Pow2(8 - k)) % 2]

\* the accumulation loop: response = (response << 1) | bits[i], i = 0..7
RECURSIVE ShiftIn(_, _, _)
ShiftIn(acc, b, i) ==
    IF i > 8 THEN acc ELSE ShiftIn(BitOr(acc * 2, b[i]), b, i + 1)

\* first position (0-based, as reported) whose element is neither 0 nor 1
FirstBadBit(b) ==
    LET bad == {i \in 1..8 : b[i] # 0 /\ b[i] # 1}
    IN  IF bad = {} THEN -1 ELSE (CHOOSE i \in bad : \A j \in bad : i <= j) - 1

\* GateFlashReceiver.decodeResponse on this.bits = b: the arguments of the
\* calls it makes to onResponseReceived (decoded) and onError (errors)
decodeResponse(b) ==
    IF Len(b) # 8
    THEN [decoded |-> <<>>, errors |-> <<"Invalid number of bits received">>]
    ELSE IF FirstBadBit(b) # -1
    THEN [decoded |-> <<>>, errors |-> <<"Invalid bit value">>]
    ELSE LET response == ShiftIn(0, b, 1)
         IN  IF response < 0 \/ response > 255
             THEN [decoded |-> <<>>, errors |-> <<"Invalid response value">>]
             ELSE [decoded |-> <<response>>, errors |-> <<>>]

\* FlashDecoder.decodeChallenge (flashDecoder.js): the length check only
decodeChallenge(b) ==
    IF Len(b) # 8
    THEN [decoded |-> <<>>, errors |-> <<"Invalid number of bits received">>]
    ELSE [decoded |-> <<ShiftIn(0, b, 1)>>, errors |-> <<>>]

\* verifyResponse comparing with challenge + 10, not reduced modulo 256
verifyResponseNoWrap(sent, received) ==
    received = sent + 10

\* verifyResponse(challenge, receivedResponse), the parameters named sent and
\* received here
verifyResponse(sent, received) ==
    LET expectedResponse == (sent + 10) % 256
    IN  received = expectedResponse

\* PhoneApp.handleChallengeDecoded: const responseValue = (challengeValue + 10) % 256
responseValue(challengeValue) == (challengeValue + 10) % 256

(***************************************************************************)
(* The transmit sequence                                                    *)
(***************************************************************************)
\* bits.map(bit => ({color: bit === 1 ? '#FFFFFF' : '#000000', duration: BIT_DURATION}))
BitSteps(b) ==
    [k \in 1..Len(b) |->
        [color |-> IF b[k] = 1 THEN "#FFFFFF" ELSE "#000000",
         duration |-> BIT_DURATION]]

\* the sequence with the END step left white
sequenceEndOn(value) ==
    <<[color |-> "#FFFFFF", duration |-> START_DURATION]>>
    \o BitSteps(numberToBits(value))
    \o <<[color |-> "#FFFFFF", duration |-> END_DURATION]>>

\* sendGateFlash: const sequence = [START, ...bits.map(...), END]
sequence(value) ==
    <<[color |-> "#FFFFFF", duration |-> START_DURATION]>>
    \o BitSteps(numberToBits(value))
    \o <<[color |-> "#000000", duration |-> END_DURATION]>>

(***************************************************************************)
(* GateFlashReceiver.  A receiver value r is the record of the object's     *)
(* fields together with the browser's pending frame callbacks and the       *)
(* callback log, so that the methods compose as the code calls them.        *)
(***************************************************************************)
Rx ==
    [state |-> state, bits |-> bits, currentBitIndex |-> currentBitIndex,
     elapsed |-> elapsed, animationFrameId |-> animationFrameId,
     baselineBrightness |-> baselineBrightness,
     baselineSamples |-> baselineSamples, isCalibrated |-> isCalibrated,
     rafPending |-> rafPending, decoded |-> decoded, errors |-> errors,
     stopped |-> stopped]

SetRx(r) ==
    /\ state' = r.state
    /\ bits' = r.bits
    /\ currentBitIndex' = r.currentBitIndex
    /\ elapsed' = r.elapsed
    /\ animationFrameId' = r.animationFrameId
    /\ baselineBrightness' = r.baselineBrightness
    /\ baselineSamples' = r.baselineSamples
    /\ isCalibrated' = r.isCalibrated
    /\ rafPending' = r.rafPending
    /\ decoded' = r.decoded
    /\ errors' = r.errors
    /\ stopped' = r.stopped

\* the initial condition that the receiver is r
RxInit(r) ==
    /\ state = r.state
    /\ bits = r.bits
    /\ currentBitIndex = r.currentBitIndex
    /\ elapsed = r.elapsed
    /\ animationFrameId = r.animationFrameId
    /\ baselineBrightness = r.baselineBrightness
    /\ baselineSamples = r.baselineSamples
    /\ isCalibrated = r.isCalibrated
    /\ rafPending = r.rafPending
    /\ decoded = r.decoded
    /\ errors = r.errors
    /\ stopped = r.stopped

\* the object after the constructor, no callback pending
NewReceiver ==
    [state |-> "IDLE", bits |-> <<>>, currentBitIndex |-> 0,
     elapsed |-> ElapsedCap, animationFrameId |-> 0,
     baselineBrightness |-> <<>>, baselineSamples |-> <<>>,
     isCalibrated |-> FALSE, rafPending |-> {}, decoded |-> <<>>,
     errors |-> <<>>, stopped |-> FALSE]

\* isLightOn with the boundary excluded: change > threshold
isLightOnStrict(brightness, baseline) ==
    brightness * baseline[2] - baseline[1]
        > BRIGHTNESS_CHANGE_THRESHOLD * baseline[2]

\* isLightOn(brightness, baseline): brightness - baseline >= threshold, with
\* the baseline the quotient baseline[1] / baseline[2] (sum / length)
isLightOn(brightness, baseline) ==
    brightness * baseline[2] - baseline[1]
        >= BRIGHTNESS_CHANGE_THRESHOLD * baseline[2]

\* requestAnimationFrame: a handle no pending callback has
FreshHandle(pending) ==
    CHOOSE h \in 1..(Cardinality(pending) + 1) : h \notin pending

\* this.animationFrameId = requestAnimationFrame(ts => this.animate(ts))
requestFrame(r) ==
    LET h == FreshHandle(r.rafPending)
    IN  [r EXCEPT !.animationFrameId = h, !.rafPending = @ \cup {h}]

\* this.onError(message)
onError(r, message) == [r EXCEPT !.errors = Append(@, message)]

\* stop that cancels the frame and drops the baseline but leaves the state
stopKeepsState(r) ==
    [r EXCEPT !.rafPending = IF r.animationFrameId # 0
                             THEN @ \ {r.animationFrameId} ELSE @,
              !.animationFrameId = 0,
              !.isCalibrated = FALSE,
              !.baselineBrightness = <<>>,
              !.baselineSamples = <<>>,
              !.stopped = TRUE]

\* GateFlashReceiver.stop
stop(r) ==
    [r EXCEPT !.rafPending = IF r.animationFrameId # 0
                             THEN @ \ {r.animationFrameId} ELSE @,
              !.animationFrameId = 0,
              !.state = "IDLE",
              !.isCalibrated = FALSE,
              !.baselineBrightness = <<>>,
              !.baselineSamples = <<>>,
              !.stopped = TRUE]

\* GateFlashReceiver.start (video and canvas are non-null at every call site)
start(r) ==
    requestFrame(
        [r EXCEPT !.state = "CALIBRATE",
                  !.bits = <<>>,
                  !.currentBitIndex = 0,
                  !.elapsed = 0,
                  !.baselineSamples = <<>>,
                  !.isCalibrated = FALSE,
                  !.baselineBrightness = <<>>,
                  !.decoded = <<>>,
                  !.errors = <<>>,
                  !.stopped = FALSE])

\* reset that clears the bits and leaves currentBitIndex
resetKeepsIndex(r) ==
    [stop(r) EXCEPT !.state = "IDLE",
                    !.bits = <<>>,
                    !.elapsed = ElapsedCap,
                    !.baselineBrightness = <<>>,
                    !.baselineSamples = <<>>,
                    !.isCalibrated = FALSE]

\* GateFlashReceiver.reset; lastStateChange = null leaves the clock difference
\* at now - 0, far above every threshold
reset(r) ==
    [stop(r) EXCEPT !.state = "IDLE",
                    !.bits = <<>>,
                    !.currentBitIndex = 0,
                    !.elapsed = ElapsedCap,
                    !.baselineBrightness = <<>>,
                    !.baselineSamples = <<>>,
                    !.isCalibrated = FALSE]

\* this.decodeResponse() inside a tick: the callbacks it makes are logged
callDecodeResponse(r) ==
    LET d == decodeResponse(r.bits)
    IN  [r EXCEPT !.decoded = @ \o d.decoded, !.errors = @ \o d.errors]

\* case 'CALIBRATE' finalizing the baseline one sample late
CalibrateTickLate(r, brightness) ==
    LET samples == Append(r.baselineSamples, brightness)
    IN  IF Len(samples) > BASELINE_SAMPLES
        THEN [r EXCEPT !.baselineSamples = samples,
                       !.baselineBrightness = <<Sum(samples), Len(samples)>>,
                       !.isCalibrated = TRUE,
                       !.state = "DETECT_START",
                       !.elapsed = 0]
        ELSE [r EXCEPT !.baselineSamples = samples]

\* case 'CALIBRATE'
CalibrateTick(r, brightness) ==
    LET samples == Append(r.baselineSamples, brightness)
    IN  IF Len(samples) >= BASELINE_SAMPLES
        THEN [r EXCEPT !.baselineSamples = samples,
                       !.baselineBrightness = <<Sum(samples), Len(samples)>>,
                       !.isCalibrated = TRUE,
                       !.state = "DETECT_START",
                       !.elapsed = 0]
        ELSE [r EXCEPT !.baselineSamples = samples]

\* case 'DETECT_START' giving up with an error when the wait runs out
DetectStartTickTimeout(r, brightness) ==
    IF ~r.isCalibrated \/ r.baselineBrightness = <<>>
    THEN [r EXCEPT !.state = "CALIBRATE", !.baselineSamples = <<>>]
    ELSE LET isOnStart == isLightOn(brightness, r.baselineBrightness)
         IN  IF isOnStart /\ r.elapsed >= START_DURATION
             THEN [r EXCEPT !.state = "READ_BITS",
                            !.currentBitIndex = 0,
                            !.bits = <<>>,
                            !.elapsed = 0]
             ELSE IF ~isOnStart /\ 2 * r.elapsed > 3 * START_DURATION
             THEN stop(onError(r, "START signal not detected"))
             ELSE r

\* case 'DETECT_START' calibrating again when the wait is re-armed
DetectStartTickRecalibrate(r, brightness) ==
    IF ~r.isCalibrated \/ r.baselineBrightness = <<>>
    THEN [r EXCEPT !.state = "CALIBRATE", !.baselineSamples = <<>>]
    ELSE LET isOnStart == isLightOn(brightness, r.baselineBrightness)
         IN  IF isOnStart /\ r.elapsed >= START_DURATION
             THEN [r EXCEPT !.state = "READ_BITS",
                            !.currentBitIndex = 0,
                            !.bits = <<>>,
                            !.elapsed = 0]
             ELSE IF ~isOnStart /\ 2 * r.elapsed > 3 * START_DURATION
             THEN [r EXCEPT !.state = "CALIBRATE",
                            !.baselineSamples = <<>>,
                            !.elapsed = 0]
             ELSE r

\* case 'DETECT_START' deciding on the elapsed time alone, whatever the light
DetectStartTickNoLight(r, brightness) ==
    IF ~r.isCalibrated \/ r.baselineBrightness = <<>>
    THEN [r EXCEPT !.state = "CALIBRATE", !.baselineSamples = <<>>]
    ELSE IF r.elapsed >= START_DURATION
    THEN [r EXCEPT !.state = "READ_BITS",
                   !.currentBitIndex = 0,
                   !.bits = <<>>,
                   !.elapsed = 0]
    ELSE r

\* case 'DETECT_START'
DetectStartTick(r, brightness) ==
    IF ~r.isCalibrated \/ r.baselineBrightness = <<>>
    THEN [r EXCEPT !.state = "CALIBRATE", !.baselineSamples = <<>>]
    ELSE LET isOnStart == isLightOn(brightness, r.baselineBrightness)
         IN  IF isOnStart /\ r.elapsed >= START_DURATION
             THEN [r EXCEPT !.state = "READ_BITS",
                            !.currentBitIndex = 0,
                            !.bits = <<>>,
                            !.elapsed = 0]
             ELSE IF ~isOnStart /\ 2 * r.elapsed > 3 * START_DURATION
             THEN [r EXCEPT !.elapsed = 0]
             ELSE r

\* case 'READ_BITS' sampling only after more than BIT_DURATION
ReadBitsTickStrict(r, brightness) ==
    IF ~r.isCalibrated \/ r.baselineBrightness = <<>>
    THEN stop(onError(r, "Baseline lost during bit reading"))
    ELSE LET isOnBit == isLightOn(brightness, r.baselineBrightness)
         IN  IF r.elapsed > BIT_DURATION
             THEN [r EXCEPT !.bits = Append(@, IF isOnBit THEN 1 ELSE 0),
                            !.currentBitIndex = @ + 1,
                            !.elapsed = 0,
                            !.state = IF r.currentBitIndex + 1 >= 8
                                      THEN "DETECT_END" ELSE @]
             ELSE r

\* case 'READ_BITS' leaving for DETECT_END one bit late
ReadBitsTickNine(r, brightness) ==
    IF ~r.isCalibrated \/ r.baselineBrightness = <<>>
    THEN stop(onError(r, "Baseline lost during bit reading"))
    ELSE LET isOnBit == isLightOn(brightness, r.baselineBrightness)
         IN  IF r.elapsed >= BIT_DURATION
             THEN [r EXCEPT !.bits = Append(@, IF isOnBit THEN 1 ELSE 0),
                            !.currentBitIndex = @ + 1,
                            !.elapsed = 0,
                            !.state = IF r.currentBitIndex + 1 > 8
                                      THEN "DETECT_END" ELSE @]
             ELSE r

\* case 'READ_BITS'
ReadBitsTick(r, brightness) ==
    IF ~r.isCalibrated \/ r.baselineBrightness = <<>>
    THEN stop(onError(r, "Baseline lost during bit reading"))
    ELSE LET isOnBit == isLightOn(brightness, r.baselineBrightness)
         IN  IF r.elapsed >= BIT_DURATION
             THEN [r EXCEPT !.bits = Append(@, IF isOnBit THEN 1 ELSE 0),
                            !.currentBitIndex = @ + 1,
                            !.elapsed = 0,
                            !.state = IF r.currentBitIndex + 1 >= 8
                                      THEN "DETECT_END" ELSE @]
             ELSE r

\* case 'DETECT_END' waiting for the light to go OFF without a timeout
DetectEndTickPatient(r, brightness) ==
    IF ~r.isCalibrated \/ r.baselineBrightness = <<>>
    THEN stop(onError(r, "Baseline lost during END detection"))
    ELSE LET isOnEnd == isLightOn(brightness, r.baselineBrightness)
         IN  IF ~isOnEnd /\ r.elapsed >= END_DURATION
             THEN [callDecodeResponse(r) EXCEPT !.state = "COMPLETE"]
             ELSE r

\* case 'DETECT_END' without the assignment state = 'COMPLETE' after decoding
DetectEndTickNoComplete(r, brightness) ==
    IF ~r.isCalibrated \/ r.baselineBrightness = <<>>
    THEN stop(onError(r, "Baseline lost during END detection"))
    ELSE LET isOnEnd == isLightOn(brightness, r.baselineBrightness)
         IN  IF ~isOnEnd /\ r.elapsed >= END_DURATION
             THEN callDecodeResponse(r)
             ELSE IF isOnEnd /\ 2 * r.elapsed > 3 * END_DURATION
             THEN stop(onError(r, "END signal not detected properly - light still on"))
             ELSE r

\* case 'DETECT_END' reporting the timeout without this.stop()
DetectEndTickNoStop(r, brightness) ==
    IF ~r.isCalibrated \/ r.baselineBrightness = <<>>
    THEN stop(onError(r, "Baseline lost during END detection"))
    ELSE LET isOnEnd == isLightOn(brightness, r.baselineBrightness)
         IN  IF ~isOnEnd /\ r.elapsed >= END_DURATION
             THEN [callDecodeResponse(r) EXCEPT !.state = "COMPLETE"]
             ELSE IF isOnEnd /\ 2 * r.elapsed > 3 * END_DURATION
             THEN onError(r, "END signal not detected properly - light still on")
             ELSE r

\* case 'DETECT_END' taking the tolerance running out as the END signal
DetectEndTickLenient(r, brightness) ==
    IF ~r.isCalibrated \/ r.baselineBrightness = <<>>
    THEN stop(onError(r, "Baseline lost during END detection"))
    ELSE LET isOnEnd == isLightOn(brightness, r.baselineBrightness)
         IN  IF (~isOnEnd /\ r.elapsed >= END_DURATION)
                \/ (isOnEnd /\ 2 * r.elapsed > 3 * END_DURATION)
             THEN [callDecodeResponse(r) EXCEPT !.state = "COMPLETE"]
             ELSE r

\* case 'DETECT_END'
DetectEndTick(r, brightness) ==
    IF ~r.isCalibrated \/ r.baselineBrightness = <<>>
    THEN stop(onError(r, "Baseline lost during END detection"))
    ELSE LET isOnEnd == isLightOn(brightness, r.baselineBrightness)
         IN  IF ~isOnEnd /\ r.elapsed >= END_DURATION
             THEN [callDecodeResponse(r) EXCEPT !.state = "COMPLETE"]
             ELSE IF isOnEnd /\ 2 * r.elapsed > 3 * END_DURATION
             THEN stop(onError(r, "END signal not detected properly - light still on"))
             ELSE r

\* GateFlashReceiver.animate run by the frame callback f, which samples
\* `brightness` dt milliseconds after the previous reading of the clock
animate(r, f, brightness, dt) ==
    LET r0 == [r EXCEPT !.rafPending = @ \ {f},
                        !.elapsed = Min(@ + dt, ElapsedCap)]
    IN  CASE r0.state = "CALIBRATE" -> requestFrame(CalibrateTick(r0, brightness))
          [] r0.state = "DETECT_START" -> requestFrame(DetectStartTick(r0, brightness))
          [] r0.state = "READ_BITS" -> requestFrame(ReadBitsTick(r0, brightness))
          [] r0.state = "DETECT_END" -> requestFrame(DetectEndTick(r0, brightness))
          [] r0.state = "COMPLETE" -> stop(r0)
          [] OTHER -> requestFrame(r0)

(***************************************************************************)
(* The senders.  A transmission t is the record of one call's closure       *)
(* variables, the browser's pending callbacks of that call and the overlay. *)
(* onProgress is optional and not supplied.                                 *)
(***************************************************************************)
Tx ==
    [variant |-> txVariant, value |-> txValue, currentStep |-> currentStep,
     started |-> txStarted, stepElapsed |-> stepElapsed,
     isCancelled |-> isCancelled, handle |-> txHandle, pending |-> txPending,
     overlay |-> overlay, onCompleteCalls |-> onCompleteCalls]

SetTx(t) ==
    /\ txVariant' = t.variant
    /\ txValue' = t.value
    /\ currentStep' = t.currentStep
    /\ txStarted' = t.started
    /\ stepElapsed' = t.stepElapsed
    /\ isCancelled' = t.isCancelled
    /\ txHandle' = t.handle
    /\ txPending' = t.pending
    /\ overlay' = t.overlay
    /\ onCompleteCalls' = t.onCompleteCalls

\* the initial condition that the transmission is t
TxInit(t) ==
    /\ txVariant = t.variant
    /\ txValue = t.value
    /\ currentStep = t.currentStep
    /\ txStarted = t.started
    /\ stepElapsed = t.stepElapsed
    /\ isCancelled = t.isCancelled
    /\ txHandle = t.handle
    /\ txPending = t.pending
    /\ overlay = t.overlay
    /\ onCompleteCalls = t.onCompleteCalls

\* no sender was called
NoTransmission ==
    [variant |-> "none", value |-> 0, currentStep |-> 0, started |-> FALSE,
     stepElapsed |-> 0, isCancelled |-> FALSE, handle |-> 0, pending |-> {},
     overlay |-> [display |-> "none", backgroundColor |-> ""],
     onCompleteCalls |-> 0]

\* flashScreen: const steps = [START]; 8 x steps.push(bit); steps.push(END)
steps(value) ==
    <<[color |-> "#FFFFFF", duration |-> START_DURATION]>>
    \o [k \in 1..8 |->
          [color |-> IF numberToBits(value)[k] = 1 THEN "#FFFFFF" ELSE "#000000",
           duration |-> BIT_DURATION]]
    \o <<[color |-> "#000000", duration |-> END_DURATION]>>

\* flashScreenRAF: const sequence = [START, ...bits.map(...), END]
rafSequence(value) ==
    <<[color |-> "#FFFFFF", duration |-> START_DURATION]>>
    \o BitSteps(numberToBits(value))
    \o <<[color |-> "#000000", duration |-> END_DURATION]>>

\* cleanup that hides the overlay without cancelling the pending callback
cleanupNoCancel(t) ==
    [t EXCEPT !.handle = 0,
              !.overlay = [display |-> "none", backgroundColor |-> "transparent"]]

\* cleanup() of the three senders: cancel the pending frame or timeout, hide
\* the overlay
cleanup(t) ==
    [t EXCEPT !.pending = IF t.handle # 0 THEN @ \ {t.handle} ELSE @,
              !.handle = 0,
              !.overlay = [display |-> "none", backgroundColor |-> "transparent"]]

\* the function the senders return: isCancelled = true; cleanup()
cancel(t) == cleanup([t EXCEPT !.isCancelled = TRUE])

\* animationFrameId = requestAnimationFrame(animate) / timeoutId = setTimeout(...)
txSchedule(t) ==
    LET h == FreshHandle(t.pending)
    IN  [t EXCEPT !.handle = h, !.pending = @ \cup {h}]

\* animate catching up after a late tick: it advances by as many steps as the
\* elapsed time covers
AnimateOverSkip(seq, t, f, dt) ==
    LET t0 == [t EXCEPT !.pending = @ \ {f}]
    IN  IF t0.isCancelled THEN cleanup(t0)
        ELSE LET t1 == [t0 EXCEPT !.started = TRUE,
                                  !.stepElapsed = IF t0.started THEN @ + dt ELSE 0]
             IN  IF t1.currentStep >= Len(seq)
                 THEN [cleanup(t1) EXCEPT !.onCompleteCalls = @ + 1]
                 ELSE LET step == seq[t1.currentStep + 1]
                          t2 == [t1 EXCEPT !.overlay.backgroundColor = step.color]
                      IN  txSchedule(
                              IF t2.stepElapsed >= step.duration
                              THEN [t2 EXCEPT !.currentStep =
                                                  Min(@ + (t2.stepElapsed \div step.duration),
                                                      Len(seq)),
                                              !.stepElapsed = 0]
                              ELSE t2)

\* animate without the return after onComplete(): the loop keeps running
AnimateOverNoReturn(seq, t, f, dt) ==
    LET t0 == [t EXCEPT !.pending = @ \ {f}]
    IN  IF t0.isCancelled THEN cleanup(t0)
        ELSE LET t1 == [t0 EXCEPT !.started = TRUE,
                                  !.stepElapsed = IF t0.started THEN @ + dt ELSE 0]
             IN  IF t1.currentStep >= Len(seq)
                 THEN txSchedule([cleanup(t1) EXCEPT !.onCompleteCalls = Min(@ + 1, 2)])
                 ELSE LET step == seq[t1.currentStep + 1]
                          t2 == [t1 EXCEPT !.overlay.backgroundColor = step.color]
                      IN  txSchedule(
                              IF t2.stepElapsed >= step.duration
                              THEN [t2 EXCEPT !.currentStep = @ + 1,
                                              !.stepElapsed = 0]
                              ELSE t2)

\* animate advancing before it renders: a tick that finds the step's time
\* used up moves on first and shows the colour of the step after it
AnimateOverAdvanceFirst(seq, t, f, dt) ==
    LET t0 == [t EXCEPT !.pending = @ \ {f}]
    IN  IF t0.isCancelled THEN cleanup(t0)
        ELSE LET t1 == [t0 EXCEPT !.started = TRUE,
                                  !.stepElapsed = IF t0.started THEN @ + dt ELSE 0]
             IN  IF t1.currentStep >= Len(seq)
                 THEN [cleanup(t1) EXCEPT !.onCompleteCalls = @ + 1]
                 ELSE LET t2 == IF t1.stepElapsed >= seq[t1.currentStep + 1].duration
                                THEN [t1 EXCEPT !.currentStep = @ + 1,
                                                !.stepElapsed = 0]
                                ELSE t1
                      IN  txSchedule(
                              IF t2.currentStep >= Len(seq) THEN t2
                              ELSE [t2 EXCEPT !.overlay.backgroundColor =
                                                  seq[t2.currentStep + 1].color])

\* the shared body of the two frame-driven animate functions over `seq`
AnimateOver(seq, t, f, dt) ==
    LET t0 == [t EXCEPT !.pending = @ \ {f}]
    IN  IF t0.isCancelled THEN cleanup(t0)
        ELSE LET t1 == [t0 EXCEPT !.started = TRUE,
                                  !.stepElapsed = IF t0.started THEN @ + dt ELSE 0]
             IN  IF t1.currentStep >= Len(seq)
                 THEN [cleanup(t1) EXCEPT !.onCompleteCalls = @ + 1]
                 ELSE LET step == seq[t1.currentStep + 1]
                          t2 == [t1 EXCEPT !.overlay.backgroundColor = step.color]
                      IN  txSchedule(
                              IF t2.stepElapsed >= step.duration
                              THEN [t2 EXCEPT !.currentStep = @ + 1,
                                              !.stepElapsed = 0]
                              ELSE t2)

\* sendGateFlash.animate(timestamp), run by the frame callback f dt
\* milliseconds after the previous frame
gateAnimate(t, f, dt) == AnimateOver(sequence(t.value), t, f, dt)

\* flashScreenRAF.animate(timestamp)
rafAnimate(t, f, dt) == AnimateOver(rafSequence(t.value), t, f, dt)

\* flashScreen.executeStep()
executeStep(t) ==
    IF t.isCancelled THEN cleanup(t)
    ELSE IF t.currentStep >= Len(steps(t.value))
    THEN [cleanup(t) EXCEPT !.onCompleteCalls = @ + 1]
    ELSE txSchedule(
             [t EXCEPT !.overlay.backgroundColor =
                           steps(t.value)[t.currentStep + 1].color])

\* flashScreen's timeout callback f: currentStep++; executeStep()
stepTimeout(t, f) ==
    executeStep([t EXCEPT !.pending = @ \ {f}, !.currentStep = @ + 1])

\* the overlay as each sender makes it visible before the first callback
Shown(t) == [t EXCEPT !.overlay.display = "block"]

\* sendGateFlash(value, onComplete) up to its return
sendGateFlash(value) ==
    txSchedule(Shown([NoTransmission EXCEPT !.variant = "sendGateFlash",
                                            !.value = value]))

\* flashScreenRAF(value, onComplete) up to its return
flashScreenRAF(value) ==
    txSchedule(Shown([NoTransmission EXCEPT !.variant = "flashScreenRAF",
                                            !.value = value]))

\* flashScreen(value, onComplete) up to its return: the first executeStep()
\* runs inside the call
flashScreen(value) ==
    executeStep(Shown([NoTransmission EXCEPT !.variant = "flashScreen",
                                             !.value = value]))

(***************************************************************************)
(* Inputs                                                                   *)
(***************************************************************************)
\* bit sequences handed to the decoders: every 0/1 sequence up to MaxBitsLen
\* and every sequence of length 8 over 0..MaxBitVal
BitInputs ==
    UNION {[1..n -> {0, 1}] : n \in 0..MaxBitsLen} \cup [1..8 -> 0..MaxBitVal]

PfInputs ==
    {[kind |-> "value", value |-> v] : v \in Byte}
    \cup {[kind |-> "bits", bits |-> b] : b \in BitInputs}

\* tick periods of the receiver's frame callbacks when it is driven freely: a prompt
\* frame and one that arrives later than a whole bit window
RxTickPeriods == {100, 350}
\* tick periods on the optical link: at least 10 ticks per bit
LinkPeriods == {16, 30}
\* quiet periods between the end of calibration and the frame
QuietDelays == {0, 1000}

\* the samples the camera delivers: the ambient level while the receiver
\* calibrates (a stable OFF baseline), the screen black or white afterwards
Samples(st) == IF st = "CALIBRATE" THEN {OffLevel} ELSE {OffLevel, OnLevel}

\* two callbacks of the same frame read the clock at the same millisecond
TickSteps(pending) ==
    IF Cardinality(pending) > 1 THEN RxTickPeriods \cup {0} ELSE RxTickPeriods

(***************************************************************************)
(* Specification of the pure functions                                      *)
(***************************************************************************)
LinkIdle == linkValue = 0 /\ linkPeriod = 0 /\ linkDelay = 0 /\ linkTime = 0
TxIdle == TxInit(NoTransmission)

\* nothing but the receiver, the senders and the gate runs
AppIdle ==
    /\ readingFor = 0
    /\ heldCancel = FALSE
    /\ seenLevel = -1
    /\ remainingTime = 0
    /\ resetTimers = [old |-> 0, new |-> 0]
    /\ camPc = "idle"
    /\ camCalls = 0
    /\ streamRef = 0
    /\ srcObject = 0
    /\ liveTracks = {}
    /\ mounted = TRUE
    /\ stoppedSince = FALSE

\* no FlashDecoder timer runs
DecoderIdle == sampleInterval = 0 /\ intervals = {}

\* GateSimulator at its first render: useState(null), useState(false), no receiver
GateIdle ==
    /\ isInitialized = FALSE
    /\ hasReceiver = FALSE
    /\ handlerChallenge = -1
    /\ completeInitialized = FALSE
    /\ challenge = -1
    /\ receivedResponse = -1
    /\ accessResult = "null"
    /\ isSending = FALSE
    /\ isListening = FALSE

InitCodec ==
    /\ GateIdle
    /\ DecoderIdle
    /\ AppIdle
    /\ pfIn \in PfInputs
    /\ pfOut = [op |-> "none"]
    /\ RxInit(NewReceiver)
    /\ LinkIdle
    /\ TxIdle

PfNumberToBits ==
    /\ pfIn.kind = "value"
    /\ pfOut' = [op |-> "numberToBits", bits |-> numberToBits(pfIn.value)]
    /\ UNCHANGED <<appVars, decVars, gateVars, pfIn, rxVars, linkVars, txVars>>

PfSequence ==
    /\ pfIn.kind = "value"
    /\ pfOut' = [op |-> "sequence", steps |-> sequence(pfIn.value)]
    /\ UNCHANGED <<appVars, decVars, gateVars, pfIn, rxVars, linkVars, txVars>>

PfRoundTrip ==
    /\ pfIn.kind = "value"
    /\ pfOut' = [op |-> "roundTrip",
                 result |-> decodeResponse(numberToBits(pfIn.value))]
    /\ UNCHANGED <<appVars, decVars, gateVars, pfIn, rxVars, linkVars, txVars>>

PfDecodeResponse ==
    /\ pfIn.kind = "bits"
    /\ pfOut' = [op |-> "decodeResponse", result |-> decodeResponse(pfIn.bits)]
    /\ UNCHANGED <<appVars, decVars, gateVars, pfIn, rxVars, linkVars, txVars>>

PfDecodeChallenge ==
    /\ pfIn.kind = "bits"
    /\ pfOut' = [op |-> "decodeChallenge", result |-> decodeChallenge(pfIn.bits)]
    /\ UNCHANGED <<appVars, decVars, gateVars, pfIn, rxVars, linkVars, txVars>>

\* isLightOn(a, b) with b the baseline of BASELINE_SAMPLES samples equal to b
PfIsLightOn ==
    /\ pfIn.kind = "pair"
    /\ pfOut' = [op |-> "isLightOn",
                 result |-> isLightOn(pfIn.a, <<BASELINE_SAMPLES * pfIn.b,
                                               BASELINE_SAMPLES>>)]
    /\ UNCHANGED <<appVars, decVars, gateVars, pfIn, rxVars, linkVars, txVars>>

\* verifyResponse(a, b), and verifyResponse(a, r) with r the phone's response to a
PfVerifyResponse ==
    /\ pfIn.kind = "pair"
    /\ pfOut' = [op |-> "verifyResponse",
                 result |-> verifyResponse(pfIn.a, pfIn.b),
                 phone |-> verifyResponse(pfIn.a, responseValue(pfIn.a))]
    /\ UNCHANGED <<appVars, decVars, gateVars, pfIn, rxVars, linkVars, txVars>>

\* a receiver that has calibrated on the ambient level, holds the bit frame b
\* and has waited END_DURATION in DETECT_END, its frame callback 1 pending
ReceiverAtEnd(b) ==
    [NewReceiver EXCEPT !.state = "DETECT_END",
                        !.bits = b,
                        !.currentBitIndex = Len(b),
                        !.elapsed = END_DURATION,
                        !.baselineSamples = [i \in 1..BASELINE_SAMPLES |-> OffLevel],
                        !.baselineBrightness = <<BASELINE_SAMPLES * OffLevel,
                                                 BASELINE_SAMPLES>>,
                        !.isCalibrated = TRUE,
                        !.animationFrameId = 1,
                        !.rafPending = {1}]

\* the tick of DETECT_END that samples the light OFF and decodes the frame
PfDetectEnd ==
    /\ pfIn.kind = "bits"
    /\ pfOut' = [op |-> "detectEnd",
                 result |-> animate(ReceiverAtEnd(pfIn.bits), 1, OffLevel, 0)]
    /\ UNCHANGED <<appVars, decVars, gateVars, pfIn, rxVars, linkVars, txVars>>

NextCodec ==
    \/ PfNumberToBits
    \/ PfSequence
    \/ PfRoundTrip
    \/ PfDecodeResponse
    \/ PfDecodeChallenge
    \/ PfDetectEnd

SpecCodec == InitCodec /\ [][NextCodec]_vars

\* pairs of bytes handed to the two-argument functions
PairInputs == {[kind |-> "pair", a |-> x, b |-> y] : x \in Byte, y \in Byte}

InitPair ==
    /\ GateIdle
    /\ DecoderIdle
    /\ AppIdle
    /\ pfIn \in PairInputs
    /\ pfOut = [op |-> "none"]
    /\ RxInit(NewReceiver)
    /\ LinkIdle
    /\ TxIdle

NextPair == PfIsLightOn \/ PfVerifyResponse

SpecPair == InitPair /\ [][NextPair]_vars

(***************************************************************************)
(* Specification of the receiver driven through its methods                 *)
(***************************************************************************)
PfIdle == pfIn = [kind |-> "value", value |-> 0] /\ pfOut = [op |-> "none"]

Init ==
    /\ GateIdle
    /\ DecoderIdle
    /\ AppIdle
    /\ PfIdle
    /\ RxInit(NewReceiver)
    /\ LinkIdle
    /\ TxIdle

\* receiver.start(video, canvas)
Start ==
    /\ Cardinality(rafPending) < MaxChains
    /\ SetRx(start(Rx))
    /\ UNCHANGED <<appVars, decVars, gateVars, pfVars, linkVars, txVars>>

\* receiver.stop()
Stop ==
    /\ SetRx(stop(Rx))
    /\ UNCHANGED <<appVars, decVars, gateVars, pfVars, linkVars, txVars>>

\* receiver.reset()
Reset ==
    /\ SetRx(reset(Rx))
    /\ UNCHANGED <<appVars, decVars, gateVars, pfVars, linkVars, txVars>>

\* GateSimulator.startListening: receiver.reset(); receiver.start(video, canvas)
StartListening ==
    /\ SetRx(start(reset(Rx)))
    /\ UNCHANGED <<appVars, decVars, gateVars, pfVars, linkVars, txVars>>

\* the browser runs one pending frame callback
Tick ==
    /\ \E f \in rafPending, b \in Samples(state), dt \in TickSteps(rafPending) :
          SetRx(animate(Rx, f, b, dt))
    /\ UNCHANGED <<appVars, decVars, gateVars, pfVars, linkVars, txVars>>

Next == Start \/ Stop \/ Reset \/ Tick

Spec == Init /\ [][Next]_vars

\* the receiver as GateSimulator drives it: startListening, stopListening, reset
NextListen == StartListening \/ Stop \/ Reset \/ Tick

SpecListen == Init /\ [][NextListen]_vars

\* samples of a scene that stays dark: the ambient level, and the brightest
\* level still below the threshold over it
DarkSamples(st) ==
    IF st = "CALIBRATE" THEN {OffLevel}
    ELSE {OffLevel, OffLevel + BRIGHTNESS_CHANGE_THRESHOLD - 1}

\* the browser runs one pending frame callback in front of a dark scene
DarkTick ==
    /\ \E f \in rafPending, b \in DarkSamples(state), dt \in TickSteps(rafPending) :
          SetRx(animate(Rx, f, b, dt))
    /\ UNCHANGED <<appVars, decVars, gateVars, pfVars, linkVars, txVars>>

NextDark == Start \/ Stop \/ Reset \/ DarkTick

\* the receiver driven freely while no light is ever shown to it
SpecDark == Init /\ [][NextDark]_vars

(***************************************************************************)
(* Specification of the optical link: the sender's frame, seen by the       *)
(* receiver's camera                                                        *)
(***************************************************************************)
\* the colour the sender shows t milliseconds into the sequence; the overlay
\* is hidden before the first step and after the last
RECURSIVE ColorAt(_, _)
ColorAt(seq, t) ==
    IF t < 0 \/ seq = <<>> THEN "transparent"
    ELSE IF t < Head(seq).duration THEN Head(seq).color
    ELSE ColorAt(Tail(seq), t - Head(seq).duration)

FrameDuration == START_DURATION + 8 * BIT_DURATION + END_DURATION

\* the brightness the camera samples on the next tick
LinkSample ==
    IF state = "CALIBRATE" THEN OffLevel
    ELSE IF ColorAt(sequence(linkValue), linkTime) = "#FFFFFF" THEN OnLevel
    ELSE OffLevel

InitLink ==
    /\ GateIdle
    /\ DecoderIdle
    /\ AppIdle
    /\ PfIdle
    /\ linkValue \in Byte
    /\ linkPeriod \in LinkPeriods
    /\ linkDelay \in QuietDelays
    /\ linkTime = -linkDelay
    /\ TxIdle
    /\ RxInit(start(NewReceiver))

\* one frame callback of the receiver; the stream starts with the first sample
\* after calibration, linkDelay milliseconds before the START symbol
LinkTick ==
    /\ \E f \in rafPending : SetRx(animate(Rx, f, LinkSample, linkPeriod))
    /\ linkTime' = IF state = "CALIBRATE" THEN linkTime
                   ELSE Min(linkTime + linkPeriod, FrameDuration)
    /\ UNCHANGED <<appVars, decVars, gateVars, pfVars, linkValue, linkPeriod, linkDelay, txVars>>

NextLink == LinkTick

SpecLink == InitLink /\ [][NextLink]_vars

(***************************************************************************)
(* Specification of one transmission                                        *)
(***************************************************************************)
\* periods between two frame callbacks of a sender: prompt and late ticks
TxTickPeriods == {100, 400}

InitTx ==
    /\ GateIdle
    /\ DecoderIdle
    /\ AppIdle
    /\ PfIdle
    /\ RxInit(NewReceiver)
    /\ LinkIdle
    /\ \E v \in Byte :
          \/ TxInit(sendGateFlash(v))
          \/ TxInit(flashScreenRAF(v))
          \/ TxInit(flashScreen(v))

\* the browser runs the pending frame callback of a frame-driven sender
TxTick ==
    /\ txVariant \in {"sendGateFlash", "flashScreenRAF"}
    /\ \E f \in txPending, dt \in TxTickPeriods :
          SetTx(IF txVariant = "sendGateFlash"
                THEN gateAnimate(Tx, f, dt) ELSE rafAnimate(Tx, f, dt))
    /\ UNCHANGED <<appVars, decVars, gateVars, pfVars, rxVars, linkVars>>

\* the browser runs the pending timeout of flashScreen
TxTimeout ==
    /\ txVariant = "flashScreen"
    /\ \E f \in txPending : SetTx(stepTimeout(Tx, f))
    /\ UNCHANGED <<appVars, decVars, gateVars, pfVars, rxVars, linkVars>>

\* the caller calls the cancel function it was given
TxCancel ==
    /\ txVariant # "none"
    /\ SetTx(cancel(Tx))
    /\ UNCHANGED <<appVars, decVars, gateVars, pfVars, rxVars, linkVars>>

NextTx == TxTick \/ TxTimeout \/ TxCancel

SpecTx == InitTx /\ [][NextTx]_vars

\* the bytes sent when the run of a transmission to its end is checked
TxFairValues == {0, 42, 170, 255}

InitTxFair == InitTx /\ txValue \in TxFairValues

\* the browser keeps running pending callbacks
SpecTxFair ==
    InitTxFair /\ [][NextTx]_vars /\ WF_vars(TxTick) /\ WF_vars(TxTimeout)

(***************************************************************************)
(* Specification of the gate simulator: the component sends a challenge     *)
(* with sendGateFlash, listens with its GateFlashReceiver and verifies      *)
(* what the receiver decodes.  A handler reads the React state of the       *)
(* render that created it; a ref (receiverRef, flashCancelRef) is read as   *)
(* it is when the handler runs.                                             *)
(***************************************************************************)
\* the challenges of the buttons Send 0 and Send 255
GateChallenges == {0, 255}

\* the period of the frame callbacks of the gate's transmission
GateTxTickPeriods == {400}

\* what the phone may flash back: its responses to these challenges, and 0
PhoneValues == {responseValue(c) : c \in GateChallenges} \cup {0}

\* tick periods of the gate's receiver: one tick per bit, at which a frame
\* that starts right after the calibration is decoded as sent
GateLinkPeriods == {BIT_DURATION}

\* the phone's frame starts with the first sample after the calibration
PhoneResponds ==
    /\ linkValue' \in PhoneValues
    /\ linkPeriod' \in GateLinkPeriods
    /\ linkDelay' = 0
    /\ linkTime' = 0

\* the samples of the gate's camera: the phone's frame, and once the phone
\* has hidden its overlay, a dark or a bright page
GateSamples ==
    IF state # "CALIBRATE" /\ linkTime >= FrameDuration
    THEN {OffLevel, OnLevel}
    ELSE {LinkSample}

\* handleResponseReceived(responseValue) of the render that had
\* challenge = handlerChallenge
handleResponseReceived(response) ==
    /\ receivedResponse' = response
    /\ isListening' = FALSE
    /\ accessResult' =
          IF handlerChallenge # -1
          THEN IF verifyResponse(handlerChallenge, response)
               THEN "granted" ELSE "failed"
          ELSE accessResult

\* handleReceiveError(errorMessage)
handleReceiveError ==
    /\ isListening' = FALSE
    /\ accessResult' = "failed"
    /\ UNCHANGED receivedResponse

\* startListening() of a render that had isInitialized = initialized
startListening(initialized) ==
    IF initialized /\ hasReceiver
    THEN isListening' = TRUE /\ SetRx(start(reset(Rx)))
    ELSE UNCHANGED <<isListening, rxVars>>

\* the camera is ready: setIsInitialized(true), and the effect constructs the
\* receiver with the handlers of that render
CameraReady ==
    /\ ~isInitialized
    /\ isInitialized' = TRUE
    /\ hasReceiver' = TRUE
    /\ handlerChallenge' = challenge
    /\ SetRx(NewReceiver)
    /\ UNCHANGED <<appVars, decVars, pfVars, linkVars, txVars, completeInitialized, challenge,
                   receivedResponse, accessResult, isSending, isListening>>

\* a click on one of the Send buttons: sendChallenge(challengeValue)
SendChallenge ==
    /\ ~isSending
    /\ ~isListening
    /\ \E challengeValue \in GateChallenges :
          /\ challenge' = challengeValue
          /\ SetTx(sendGateFlash(challengeValue))
    /\ receivedResponse' = -1
    /\ accessResult' = "null"
    /\ isSending' = TRUE
    /\ completeInitialized' = isInitialized
    /\ UNCHANGED <<appVars, decVars, pfVars, rxVars, linkVars, isInitialized, hasReceiver,
                   handlerChallenge, isListening>>

\* a frame callback of the transmission; its onComplete callback is
\* setIsSending(false); startListening()
GateTxTick ==
    /\ txVariant = "sendGateFlash"
    /\ \E f \in txPending, dt \in GateTxTickPeriods :
          LET t == gateAnimate(Tx, f, dt)
          IN  /\ SetTx(t)
              /\ IF t.onCompleteCalls > onCompleteCalls
                 THEN isSending' = FALSE /\ startListening(completeInitialized)
                 ELSE UNCHANGED <<isSending, isListening, rxVars>>
    /\ IF isListening' THEN PhoneResponds ELSE UNCHANGED linkVars
    /\ UNCHANGED <<appVars, decVars, pfVars, isInitialized, hasReceiver, handlerChallenge,
                   completeInitialized, challenge, receivedResponse, accessResult>>

\* a click on Start Listening (enabled when the camera is ready and nothing
\* is being sent)
GateStartListening ==
    /\ ~isListening
    /\ isInitialized
    /\ ~isSending
    /\ startListening(isInitialized)
    /\ IF isListening' THEN PhoneResponds ELSE UNCHANGED linkVars
    /\ UNCHANGED <<appVars, decVars, pfVars, txVars, isInitialized, hasReceiver,
                   handlerChallenge, completeInitialized, challenge,
                   receivedResponse, accessResult, isSending>>

\* a click on Stop Listening: stopListening()
GateStopListening ==
    /\ isListening
    /\ IF hasReceiver THEN SetRx(stop(Rx)) ELSE UNCHANGED rxVars
    /\ isListening' = FALSE
    /\ UNCHANGED <<appVars, decVars, pfVars, linkVars, txVars, isInitialized, hasReceiver,
                   handlerChallenge, completeInitialized, challenge,
                   receivedResponse, accessResult, isSending>>

\* a click on Reset All: reset()
GateReset ==
    /\ IF txVariant # "none" THEN SetTx(cancel(Tx)) ELSE UNCHANGED txVars
    /\ IF hasReceiver THEN SetRx(reset(Rx)) ELSE UNCHANGED rxVars
    /\ challenge' = -1
    /\ receivedResponse' = -1
    /\ accessResult' = "null"
    /\ isSending' = FALSE
    /\ isListening' = FALSE
    /\ UNCHANGED <<appVars, decVars, pfVars, linkVars, isInitialized, hasReceiver, handlerChallenge,
                   completeInitialized>>

\* a frame callback of the gate's receiver, with the callbacks it makes
GateRxTick ==
    /\ \E f \in rafPending, b \in GateSamples :
          LET r == animate(Rx, f, b, linkPeriod)
          IN  /\ SetRx(r)
              /\ IF Len(r.decoded) > Len(decoded)
                 THEN handleResponseReceived(r.decoded[Len(r.decoded)])
                 ELSE IF Len(r.errors) > Len(errors)
                 THEN handleReceiveError
                 ELSE UNCHANGED <<receivedResponse, accessResult, isListening>>
    /\ linkTime' = IF state = "CALIBRATE" THEN linkTime
                   ELSE Min(linkTime + linkPeriod, FrameDuration)
    /\ UNCHANGED <<appVars, decVars, pfVars, linkValue, linkPeriod, linkDelay, txVars, isInitialized,
                   hasReceiver, handlerChallenge, completeInitialized, challenge,
                   isSending>>

NextGate ==
    \/ CameraReady
    \/ SendChallenge
    \/ GateTxTick
    \/ GateStartListening
    \/ GateStopListening
    \/ GateReset
    \/ GateRxTick

SpecGate == Init /\ [][NextGate]_vars

(***************************************************************************)
(* Properties                                                               *)
(***************************************************************************)
White == "#FFFFFF"
Black == "#000000"
Hidden == [display |-> "none", backgroundColor |-> "transparent"]

\* the session on the link is over: the receiver decoded or stopped
LinkEnded == state \in {"COMPLETE", "IDLE"}

\* C1: End-to-end framing.  With no quiet period before the frame (the
\* stream is ON from the first sample after calibration), at every tick
\* period of at least 10 ticks per bit, the session reports no error and,
\* once it is over, the decoded callback was called with exactly the byte
\* sent.
C1_EndToEndFraming ==
    linkDelay = 0 =>
        /\ errors = <<>>
        /\ decoded \in {<<>>, <<linkValue>>}
        /\ LinkEnded => decoded = <<linkValue>>

\* C2: Quiet-period tolerance.  For every quiet period before the frame, at
\* the tick period of 30 ms (at which a frame without quiet period is
\* decoded), the decoded callback is never called with a byte other than the
\* one sent.
C2_QuietPeriodTolerance ==
    linkPeriod = 30 => decoded \in {<<>>, <<linkValue>>}

\* C3: Wire format.  The sequence built for v has exactly 10 steps: one ON
\* step of START_DURATION, 8 steps of BIT_DURATION that are ON or OFF and
\* spell v most significant bit first, one OFF step of END_DURATION.
C3_WireFormat ==
    pfOut.op = "sequence" =>
        LET s == pfOut.steps
        IN  /\ Len(s) = 10
            /\ s[1] = [color |-> White, duration |-> START_DURATION]
            /\ \A i \in 0..7 :
                  /\ s[i + 2].duration = BIT_DURATION
                  /\ s[i + 2].color \in {White, Black}
            /\ Sum([i \in 1..8 |->
                      IF s[i + 1].color = White THEN Pow2(8 - i) ELSE 0])
                  = pfIn.value
            /\ s[10] = [color |-> Black, duration |-> END_DURATION]

C3_Witness == pfOut.op = "sequence" /\ pfIn.value = 42

\* C4: Codec round-trip.  Decoding the bits numberToBits(v) produces calls
\* onResponseReceived(v) once and reports no error.
C4_RoundTrip ==
    pfOut.op = "roundTrip" =>
        pfOut.result = [decoded |-> <<pfIn.value>>, errors |-> <<>>]

C4_Witness == pfOut.op = "roundTrip" /\ pfIn.value = 170

\* the bit sequence is one the codec must reject
Malformed(b) == Len(b) # 8 \/ \E i \in 1..Len(b) : b[i] \notin {0, 1}

\* C5: Codec rejection.  Both decoders answer a sequence whose length is not
\* 8, or that holds an element other than 0 or 1, with an error and without
\* calling the decoded callback.
C5_CodecRejection ==
    (pfOut.op \in {"decodeResponse", "decodeChallenge"} /\ Malformed(pfIn.bits)) =>
        (pfOut.result.decoded = <<>> /\ pfOut.result.errors # <<>>)

\* C6: Receiver callbacks fire exactly once.  Since the last start() the
\* decoded callback was called at most once, with a byte, the error callback
\* at most once, never both, and a completed session had exactly one decoded
\* call.
C6_CallbacksOnce ==
    /\ Len(decoded) <= 1
    /\ Len(errors) <= 1
    /\ ~(decoded # <<>> /\ errors # <<>>)
    /\ \A i \in 1..Len(decoded) : decoded[i] \in Byte
    /\ state = "COMPLETE" => Len(decoded) = 1

C6_Witness == state = "COMPLETE" /\ decoded = <<170>> /\ errors = <<>>

\* C7: stop() halts ticking.  After stop(), until the next start(), the
\* receiver is IDLE and no frame callback is pending.
C7_StopHaltsTicking ==
    stopped => (state = "IDLE" /\ rafPending = {} /\ animationFrameId = 0)

\* C8: Single active session.  At most one frame callback of the receiver
\* is pending at any time.
C8_SingleTickChain == Cardinality(rafPending) <= 1

\* C9: Transmit cancellation.  Once the cancel function was called the
\* overlay is hidden and no callback is pending; no later step calls
\* onComplete or changes the overlay; onComplete is called at most once.
C9_TransmitCancellation ==
    /\ [](isCancelled => (overlay = Hidden /\ txPending = {} /\ txHandle = 0))
    /\ [](onCompleteCalls <= 1)
    /\ [][isCancelled =>
            (onCompleteCalls' = onCompleteCalls /\ overlay' = overlay)]_vars

C9_Witness ==
    /\ isCancelled
    /\ txVariant = "flashScreen"
    /\ currentStep = 5
    /\ onCompleteCalls = 0

\* the transmission ran to its end
TxCompleted ==
    /\ currentStep >= 10
    /\ onCompleteCalls = 1
    /\ txPending = {}
    /\ txHandle = 0
    /\ overlay = Hidden

\* C10: Transmit completion.  While callbacks keep running, a transmission
\* that is not cancelled reaches its end for good: past the last step, one
\* call of onComplete, no callback pending, the overlay hidden; onComplete is
\* never called twice.
C10_TransmitCompletion ==
    /\ <>[](isCancelled \/ TxCompleted)
    /\ [](onCompleteCalls <= 1)

C10_Witness == TxCompleted /\ ~isCancelled /\ txVariant = "sendGateFlash"

\* C11: Transmit step order.  Every step of a transmission leaves the step
\* index unchanged or raises it by exactly one, and a step that raises it
\* restarts the step timer at that tick; a tick of a running frame-driven
\* sender renders the colour of the step the index stood at, so the steps
\* are shown one after the other in sequence order, none skipped, however
\* late the tick.
C11_TransmitStepOrder ==
    [][/\ currentStep' \in {currentStep, currentStep + 1}
       /\ currentStep' = currentStep + 1 => stepElapsed' = 0
       /\ (TxTick /\ ~isCancelled /\ currentStep < 10) =>
              overlay'.backgroundColor = sequence(txValue)[currentStep + 1].color]_vars

\* a late tick has just moved sendGateFlash from the third bit to the fourth
C11_Witness ==
    /\ txVariant = "sendGateFlash"
    /\ txValue = 170
    /\ ~isCancelled
    /\ currentStep = 4
    /\ stepElapsed = 0
    /\ overlay = [display |-> "block", backgroundColor |-> White]
    /\ txPending # {}

\* C12: No spurious start.  While every sample after calibration is below
\* baseline + threshold, the receiver never reads bits, calls neither
\* callback, and no tick takes it out of DETECT_START.
C12_NoSpuriousStart ==
    /\ [](/\ state \in {"IDLE", "CALIBRATE", "DETECT_START"}
          /\ decoded = <<>>
          /\ errors = <<>>)
    /\ [][(DarkTick /\ state = "DETECT_START") => state' = "DETECT_START"]_vars

\* the receiver has waited in the dark for one and a half START durations
C12_Witness ==
    /\ state = "DETECT_START"
    /\ isCalibrated
    /\ elapsed = (3 * START_DURATION) \div 2
    /\ rafPending # {}

\* the step is a frame callback of the receiver that sampled brightness b, dt
\* milliseconds after the previous reading of the clock
TickSaw(b, dt) == \E f \in rafPending : SetRx(animate(Rx, f, b, dt))

EndTimeoutMessage == "END signal not detected properly - light still on"

\* C13: END timeout.  A tick in DETECT_END that samples the light ON more
\* than 1.5 x END_DURATION after the 8th bit calls the error callback once
\* with the 'light still on' message, calls no decoded callback and leaves
\* the receiver IDLE; a session that failed this way has no decoded value.
C13_EndTimeout ==
    /\ [][\A b \in Samples(state), dt \in TickSteps(rafPending) :
            (/\ state = "DETECT_END"
             /\ isLightOn(b, baselineBrightness)
             /\ 2 * Min(elapsed + dt, ElapsedCap) > 3 * END_DURATION
             /\ TickSaw(b, dt))
            => (/\ errors = <<>>
                /\ errors' = <<EndTimeoutMessage>>
                /\ decoded = <<>>
                /\ decoded' = <<>>
                /\ state' = "IDLE")]_vars
    /\ [](errors = <<EndTimeoutMessage>> => (state = "IDLE" /\ decoded = <<>>))

\* the light stayed on after the eight bits 10101010 and the session failed
C13_Witness ==
    /\ errors = <<EndTimeoutMessage>>
    /\ decoded = <<>>
    /\ state = "IDLE"
    /\ bits = <<1, 0, 1, 0, 1, 0, 1, 0>>

\* the session has ended: a callback was called since the last start()
SessionEnded == decoded # <<>> \/ errors # <<>>

\* C14 as stated: a tick in COMPLETE leaves the receiver in COMPLETE, and a
\* tick after an error leaves the state as it is.
C14_TerminalStatesStay ==
    [][(SessionEnded /\ Tick) =>
          /\ state = "COMPLETE" => state' = "COMPLETE"
          /\ errors # <<>> => state' = state]_vars

\* C14 as amended: an ended session is COMPLETE or IDLE; the tick after it
\* ended leaves the receiver IDLE and calls no callback, so that only
\* start() begins anything new.
C14_TerminalStates ==
    /\ [](SessionEnded => state \in {"COMPLETE", "IDLE"})
    /\ [][(SessionEnded /\ Tick) =>
            (state' = "IDLE" /\ decoded' = decoded /\ errors' = errors)]_vars

\* the tick after the decoding of 170 has stopped the receiver
C14_Witness ==
    /\ state = "IDLE"
    /\ decoded = <<170>>
    /\ stopped
    /\ animationFrameId = 0

\* C15: Idempotent reset.  Every reset() leaves the receiver IDLE with no
\* baseline, no calibration samples, not calibrated, an empty bit frame and
\* no frame callback pending, and a further reset() changes nothing.
C15_IdempotentReset ==
    [][Reset =>
        /\ state' = "IDLE"
        /\ baselineBrightness' = <<>>
        /\ baselineSamples' = <<>>
        /\ ~isCalibrated'
        /\ bits' = <<>>
        /\ currentBitIndex' = 0
        /\ animationFrameId' = 0
        /\ rafPending' = {}
        /\ reset(Rx') = Rx']_vars

\* C16: stop() discards all session state.  Every stop() leaves the
\* receiver with no baseline, no calibration samples, not calibrated, and
\* with the bit frame and the bit index cleared, as after construction.
C16_StopDiscardsSession ==
    [][Stop =>
        /\ baselineBrightness' = NewReceiver.baselineBrightness
        /\ baselineSamples' = NewReceiver.baselineSamples
        /\ isCalibrated' = NewReceiver.isCalibrated
        /\ bits' = NewReceiver.bits
        /\ currentBitIndex' = NewReceiver.currentBitIndex]_vars

\* C17: Classifier boundary.  For every brightness b and baseline m in
\* 0..255 the classifier answers ON exactly when b is at least m + threshold:
\* OFF up to m + threshold - 1, ON from m + threshold.
C17_ClassifierBoundary ==
    pfOut.op = "isLightOn" =>
        /\ pfIn.a < pfIn.b + BRIGHTNESS_CHANGE_THRESHOLD => ~pfOut.result
        /\ pfIn.a >= pfIn.b + BRIGHTNESS_CHANGE_THRESHOLD => pfOut.result

\* the boundary itself: brightness 150 over baseline 100 is ON
C17_Witness ==
    /\ pfOut.op = "isLightOn"
    /\ pfIn.a = 100 + BRIGHTNESS_CHANGE_THRESHOLD
    /\ pfIn.b = 100
    /\ pfOut.result

\* C18: Challenge-response policy.  For every challenge c and received
\* value r in 0..255, verifyResponse(c, r) is true exactly when r is c + 10
\* wrapped around at 256, and the response the phone computes for c is
\* accepted.
C18_ResponsePolicy ==
    pfOut.op = "verifyResponse" =>
        /\ pfOut.result <=>
              (pfIn.b = IF pfIn.a + 10 <= 255 THEN pfIn.a + 10 ELSE pfIn.a + 10 - 256)
        /\ pfOut.phone

\* the wrap-around: challenge 250 is answered by 4
C18_Witness ==
    /\ pfOut.op = "verifyResponse"
    /\ pfIn.a = 250
    /\ pfIn.b = 4
    /\ pfOut.result

\* C20: START needs a full-length ON pulse.  On the link the light is OFF
\* before stream time 0 and ON from then to the end of the START symbol, so
\* at the tick that samples stream time linkTime it has been ON for less
\* than linkTime + linkPeriod; the receiver goes from DETECT_START to
\* READ_BITS only on a tick at which that is at least START_DURATION.
C20_FullStartPulse ==
    [][(state = "DETECT_START" /\ state' = "READ_BITS") =>
          linkTime + linkPeriod >= START_DURATION]_vars

\* C19: Automatic verification.  Whenever the receiver decodes a response r
\* while the gate shows a sent challenge c, that step sets the access result
\* to 'granted' if r = (c + 10) mod 256 and to 'failed' otherwise.
C19_AutomaticVerification ==
    [][(GateRxTick /\ decoded = <<>> /\ decoded' # <<>> /\ challenge # -1) =>
          accessResult' = IF decoded'[1] = (challenge + 10) % 256
                          THEN "granted" ELSE "failed"]_vars

(***************************************************************************)
(* The receiver in front of a screen whose END comes late                   *)
(***************************************************************************)
\* how long the screen stays lit after the receiver has read its 8th bit
\* before it goes dark: longer than END_DURATION, within the tolerance
StuckOn == 1200

\* the sample of a tick in DETECT_END whose clock difference is e: the screen
\* is lit until StuckOn and dark from then on
StuckSample(e) == IF e < StuckOn THEN OnLevel ELSE OffLevel

\* the browser runs the pending frame callback of the receiver
StuckTick ==
    /\ \E f \in rafPending, dt \in RxTickPeriods :
          \E b \in (IF state = "DETECT_END"
                    THEN {StuckSample(Min(elapsed + dt, ElapsedCap))}
                    ELSE Samples(state)) :
             SetRx(animate(Rx, f, b, dt))
    /\ UNCHANGED <<appVars, decVars, gateVars, pfVars, linkVars, txVars>>

NextStuck == StartListening \/ StuckTick

SpecStuck == Init /\ [][NextStuck]_vars

\* C21: END needs a full-length OFF period.  The screen stays lit for
\* StuckOn ms after the 8th bit and is dark from then on, so the light has
\* been OFF for END_DURATION only once the clock difference has reached
\* StuckOn + END_DURATION (or the cap of the clock difference); the receiver
\* calls the decoded callback in DETECT_END no earlier than that.
C21_EndNeedsFullOff ==
    [][(state = "DETECT_END" /\ decoded' # decoded)
         => elapsed' >= Min(StuckOn + END_DURATION, ElapsedCap)]_vars

InvalidateBaseline ==
    /\ baselineBrightness # <<>>
    /\ baselineBrightness' = <<>>
    /\ UNCHANGED <<state, bits, currentBitIndex, elapsed, animationFrameId,
                   baselineSamples, isCalibrated, rafPending, decoded, errors,
                   stopped>>
    /\ UNCHANGED <<appVars, decVars, gateVars, pfVars, linkVars, txVars>>

NextFault == StartListening \/ Tick \/ InvalidateBaseline

SpecFault == Init /\ [][NextFault]_vars

\* the messages of the baseline-lost errors
BaselineLostMessages ==
    {"Baseline lost during bit reading", "Baseline lost during END detection"}

\* C23: Baseline lost is a failure in every baseline-using state.  A tick in
\* DETECT_START, READ_BITS or DETECT_END that finds no baseline calls the
\* error callback with a baseline-lost message and leaves the receiver in
\* its failed state (IDLE); it does not go back to CALIBRATE.
C23_BaselineLostFails ==
    [][(/\ state \in {"DETECT_START", "READ_BITS", "DETECT_END"}
        /\ baselineBrightness = <<>>
        /\ Tick)
       => (/\ \E m \in BaselineLostMessages : errors' = Append(errors, m)
           /\ state' = "IDLE")]_vars

\* C24: Calibrate once, baseline immutable.  No tick enters CALIBRATE (a
\* session is there only from its start() until calibration completes), and
\* a tick of a calibrated session leaves the baseline as it is, or ends the
\* session through stop(), which leaves the receiver IDLE without baseline.
C24_CalibrateOnce ==
    [][(state # "IDLE" /\ Tick)
       => (/\ state' = "CALIBRATE" => state = "CALIBRATE"
           /\ isCalibrated =>
                 \/ baselineBrightness' = baselineBrightness
                 \/ (state' = "IDLE" /\ baselineBrightness' = <<>>))]_vars

(***************************************************************************)
(* The receiver calibrating while the ambient light changes                 *)
(***************************************************************************)
\* the samples of a scene whose ambient level rises once, by one step,
\* while the receiver calibrates, and that stays dark afterwards
CalibSamples(st, samples) ==
    IF st # "CALIBRATE" THEN {OffLevel}
    ELSE IF samples = <<>> \/ samples[Len(samples)] = OffLevel
    THEN {OffLevel, OffLevel + 1}
    ELSE {OffLevel + 1}

\* the browser runs one pending frame callback
CalibTick ==
    /\ \E f \in rafPending, b \in CalibSamples(state, baselineSamples),
          dt \in TickSteps(rafPending) :
          SetRx(animate(Rx, f, b, dt))
    /\ UNCHANGED <<appVars, decVars, gateVars, pfVars, linkVars, txVars>>

NextCalib == Start \/ Stop \/ Reset \/ CalibTick

SpecCalib == Init /\ [][NextCalib]_vars

\* the number of samples of s equal to v
CountOf(s, v) == Cardinality({i \in 1..Len(s) : s[i] = v})

\* C25: Calibration result.  While the receiver is in CALIBRATE it holds
\* fewer than BASELINE_SAMPLES samples and no baseline; every tick there
\* adds its own sample and leaves CALIBRATE exactly when that sample is the
\* BASELINE_SAMPLES-th since start(); start() begins with no samples; and a
\* baseline is the mean of the BASELINE_SAMPLES samples held: their sum over
\* their number.
C25_CalibrationResult ==
    /\ [](state = "CALIBRATE" =>
             (Len(baselineSamples) < BASELINE_SAMPLES /\ baselineBrightness = <<>>))
    /\ [](baselineBrightness # <<>> =>
             /\ isCalibrated
             /\ Len(baselineSamples) = BASELINE_SAMPLES
             /\ baselineBrightness[2] = BASELINE_SAMPLES
             /\ baselineBrightness[1] =
                    OffLevel * CountOf(baselineSamples, OffLevel)
                    + (OffLevel + 1) * CountOf(baselineSamples, OffLevel + 1))
    /\ [][Start => (baselineSamples' = <<>> /\ baselineBrightness' = <<>>)]_vars
    /\ [][\A b \in CalibSamples(state, baselineSamples), dt \in TickSteps(rafPending) :
            (state = "CALIBRATE" /\ TickSaw(b, dt))
            => (/\ baselineSamples' = Append(baselineSamples, b)
                /\ state' # "CALIBRATE"
                     <=> Len(baselineSamples) + 1 = BASELINE_SAMPLES)]_vars

\* calibration ended on a baseline of 23 samples at the lower level and 7 at
\* the higher one
C25_Witness ==
    /\ state = "DETECT_START"
    /\ isCalibrated
    /\ baselineBrightness = <<BASELINE_SAMPLES * OffLevel + 7, BASELINE_SAMPLES>>
    /\ CountOf(baselineSamples, OffLevel + 1) = 7

\* C26: Bit frame length invariant.  The bit frame never has more than 8
\* elements and every element is 0 or 1; while the receiver is in DETECT_END
\* or COMPLETE the frame has exactly 8 elements and currentBitIndex is 8,
\* and every call of the decoded or the error callback out of DETECT_END
\* is made on a frame of exactly 8 elements.
C26_BitFrameLength ==
    /\ [](/\ Len(bits) <= 8
          /\ \A i \in 1..Len(bits) : bits[i] \in {0, 1}
          /\ state \in {"DETECT_END", "COMPLETE"} =>
                (Len(bits) = 8 /\ currentBitIndex = 8))
    /\ [][(state = "DETECT_END" /\ (decoded' # decoded \/ errors' # errors))
            => (Len(bits) = 8 /\ bits' = bits)]_vars

\* the receiver waits for END with the frame 11001011
C26_Witness ==
    /\ state = "DETECT_END"
    /\ bits = <<1, 1, 0, 0, 1, 0, 1, 1>>
    /\ decoded = <<>>

\* the position of a state in the order of a session
Stage(st) ==
    CASE st = "IDLE" -> 0
      [] st = "CALIBRATE" -> 1
      [] st = "DETECT_START" -> 2
      [] st = "READ_BITS" -> 3
      [] st = "DETECT_END" -> 4
      [] st = "COMPLETE" -> 5

\* C27: Receiver state order.  A tick leaves the state as it is, moves it to
\* the next stage of IDLE, CALIBRATE, DETECT_START, READ_BITS, DETECT_END,
\* COMPLETE, or ends the session in IDLE; it never moves the state back to
\* an earlier stage of the session and never skips a stage.
C27_StateOrder ==
    [][(state # "IDLE" /\ Tick)
       => \/ state' = state
          \/ Stage(state') = Stage(state) + 1
          \/ state' = "IDLE"]_vars

(***************************************************************************)
(* The receiver ticked by a browser that stalls                             *)
(***************************************************************************)
\* tick periods of a page whose frames stall: a prompt frame and one that
\* arrives more than two bit windows late
LateTickPeriods == {100, 700}

\* the browser runs the pending frame callback of the receiver
LateTick ==
    /\ \E f \in rafPending, b \in Samples(state), dt \in LateTickPeriods :
          SetRx(animate(Rx, f, b, dt))
    /\ UNCHANGED <<appVars, decVars, gateVars, pfVars, linkVars, txVars>>

NextLate == StartListening \/ Stop \/ LateTick

SpecLate == Init /\ [][NextLate]_vars

\* C28: Bit sampling rule.  A tick in READ_BITS whose clock difference is at
\* least BIT_DURATION appends exactly one bit, however late it is: 1 if its
\* own sample is ON and 0 if it is OFF; it counts the bit, resets the timer,
\* and moves to DETECT_END exactly when that bit is the 8th.  A tick with a
\* smaller clock difference appends nothing and leaves the state and the
\* running timer as they are.
C28_BitSampling ==
    [][\A b \in Samples(state), dt \in LateTickPeriods :
          (state = "READ_BITS" /\ TickSaw(b, dt))
          => IF Min(elapsed + dt, ElapsedCap) >= BIT_DURATION
             THEN /\ bits' = Append(bits, IF isLightOn(b, baselineBrightness)
                                          THEN 1 ELSE 0)
                  /\ currentBitIndex' = currentBitIndex + 1
                  /\ elapsed' = 0
                  /\ state' = IF Len(bits') = 8 THEN "DETECT_END" ELSE "READ_BITS"
             ELSE /\ bits' = bits
                  /\ currentBitIndex' = currentBitIndex
                  /\ elapsed' = elapsed + dt
                  /\ state' = "READ_BITS"]_vars

\* a late tick has just sampled the 8th bit, a 1, and the receiver waits for END
C28_Witness ==
    /\ state = "DETECT_END"
    /\ elapsed = 0
    /\ bits = <<0, 1, 0, 1, 0, 1, 0, 1>>

\* the fields of the receiver other than its timer and its frame handle
RxSession ==
    <<state, bits, currentBitIndex, baselineBrightness, baselineSamples,
      isCalibrated, decoded, errors>>

\* C29: Re-arm changes only the timer.  A tick in DETECT_START that samples
\* OFF with a clock difference above 1.5 x START_DURATION resets the timer
\* and leaves state, baseline, calibration flag and bit frame as they are;
\* a tick there that samples OFF with a smaller clock difference, or ON with
\* a clock difference below START_DURATION, leaves them as they are too and
\* lets the timer run on.
C29_RearmOnlyTimer ==
    [][\A b \in Samples(state), dt \in TickSteps(rafPending) :
          (state = "DETECT_START" /\ TickSaw(b, dt))
          => LET e == Min(elapsed + dt, ElapsedCap)
                 isOnStart == isLightOn(b, baselineBrightness)
             IN  /\ (~isOnStart /\ 2 * e > 3 * START_DURATION)
                      => (elapsed' = 0 /\ RxSession' = RxSession)
                 /\ ((~isOnStart /\ 2 * e <= 3 * START_DURATION)
                     \/ (isOnStart /\ e < START_DURATION))
                      => (elapsed' = e /\ RxSession' = RxSession)]_vars

\* the receiver has waited 950 ms in DETECT_START through ticks that changed
\* nothing
C29_Witness ==
    /\ state = "DETECT_START"
    /\ elapsed = 950
    /\ bits = <<>>
    /\ baselineBrightness = <<BASELINE_SAMPLES * OffLevel, BASELINE_SAMPLES>>

(***************************************************************************)
(* FlashDecoder, the receiver driven by setInterval.  A decoder value d is  *)
(* the record of the object's fields together with the browser's active     *)
(* interval timers and the callback log.                                    *)
(***************************************************************************)
SAMPLE_INTERVAL == 50
BRIGHTNESS_THRESHOLD == 100

Decoder ==
    [state |-> state, bits |-> bits, currentBitIndex |-> currentBitIndex,
     elapsed |-> elapsed, sampleInterval |-> sampleInterval,
     intervals |-> intervals, decoded |-> decoded, errors |-> errors]

SetDecoder(d) ==
    /\ state' = d.state
    /\ bits' = d.bits
    /\ currentBitIndex' = d.currentBitIndex
    /\ elapsed' = d.elapsed
    /\ sampleInterval' = d.sampleInterval
    /\ intervals' = d.intervals
    /\ decoded' = d.decoded
    /\ errors' = d.errors
    /\ UNCHANGED <<animationFrameId, baselineBrightness, baselineSamples,
                   isCalibrated, rafPending, stopped>>

\* isLightOn(brightness) of flashDecoder.js: an absolute threshold
decoderIsLightOn(brightness) == brightness > BRIGHTNESS_THRESHOLD

\* FlashDecoder.start (video and canvas are non-null at every call site)
decoderStart(d) ==
    LET h == FreshHandle(d.intervals)
    IN  [d EXCEPT !.state = "DETECT_START",
                  !.bits = <<>>,
                  !.currentBitIndex = 0,
                  !.elapsed = 0,
                  !.sampleInterval = h,
                  !.intervals = @ \cup {h},
                  !.decoded = <<>>,
                  !.errors = <<>>]

\* FlashDecoder.stop
decoderStop(d) ==
    [d EXCEPT !.intervals = IF d.sampleInterval # 0
                            THEN @ \ {d.sampleInterval} ELSE @,
              !.sampleInterval = 0,
              !.state = "IDLE"]

\* FlashDecoder.reset
decoderReset(d) ==
    [decoderStop(d) EXCEPT !.state = "IDLE",
                           !.bits = <<>>,
                           !.currentBitIndex = 0,
                           !.elapsed = ElapsedCap]

\* this.decodeChallenge() inside a sample: the callbacks it makes are logged
callDecodeChallenge(d) ==
    LET c == decodeChallenge(d.bits)
    IN  [d EXCEPT !.decoded = @ \o c.decoded, !.errors = @ \o c.errors]

\* FlashDecoder.sample, run dt milliseconds after the previous reading of
\* the clock
sample(d, brightness, dt) ==
    LET d0 == [d EXCEPT !.elapsed = Min(@ + dt, ElapsedCap)]
        isOn == decoderIsLightOn(brightness)
    IN  CASE d0.state = "DETECT_START" ->
               IF isOn /\ d0.elapsed >= START_DURATION
               THEN [d0 EXCEPT !.state = "READ_BITS",
                               !.currentBitIndex = 0,
                               !.bits = <<>>,
                               !.elapsed = 0]
               ELSE IF ~isOn /\ 2 * d0.elapsed > 3 * START_DURATION
               THEN [d0 EXCEPT !.elapsed = 0]
               ELSE d0
          [] d0.state = "READ_BITS" ->
               IF d0.elapsed >= BIT_DURATION
               THEN [d0 EXCEPT !.bits = Append(@, IF isOn THEN 1 ELSE 0),
                               !.currentBitIndex = @ + 1,
                               !.elapsed = 0,
                               !.state = IF d0.currentBitIndex + 1 >= 8
                                         THEN "DETECT_END" ELSE @]
               ELSE d0
          [] d0.state = "DETECT_END" ->
               IF ~isOn /\ d0.elapsed >= END_DURATION
               THEN [callDecodeChallenge(d0) EXCEPT !.state = "COMPLETE"]
               ELSE IF isOn /\ 2 * d0.elapsed > 3 * END_DURATION
               THEN decoderStop(onError(d0, "END signal not detected properly"))
               ELSE d0
          [] OTHER -> d0

\* the samples the camera delivers: the brightest level that is OFF and the
\* darkest that is ON
DecoderSamples == {BRIGHTNESS_THRESHOLD, BRIGHTNESS_THRESHOLD + 1}

\* the timers fire SAMPLE_INTERVAL apart; two timers can fire in the same
\* millisecond
DecoderSteps ==
    IF Cardinality(intervals) > 1 THEN {SAMPLE_INTERVAL, 0} ELSE {SAMPLE_INTERVAL}

\* decoder.start(video, canvas)
DecoderStart ==
    /\ Cardinality(intervals) < MaxChains
    /\ SetDecoder(decoderStart(Decoder))
    /\ UNCHANGED <<appVars, gateVars, pfVars, linkVars, txVars>>

\* decoder.stop()
DecoderStop ==
    /\ SetDecoder(decoderStop(Decoder))
    /\ UNCHANGED <<appVars, gateVars, pfVars, linkVars, txVars>>

\* decoder.reset()
DecoderReset ==
    /\ SetDecoder(decoderReset(Decoder))
    /\ UNCHANGED <<appVars, gateVars, pfVars, linkVars, txVars>>

\* one of the active interval timers fires and runs this.sample()
DecoderSample ==
    /\ intervals # {}
    /\ \E b \in DecoderSamples, dt \in DecoderSteps :
          SetDecoder(sample(Decoder, b, dt))
    /\ UNCHANGED <<appVars, gateVars, pfVars, linkVars, txVars>>

NextDecoder == DecoderStart \/ DecoderStop \/ DecoderReset \/ DecoderSample

SpecDecoder == Init /\ [][NextDecoder]_vars

\* C30: Ticking stops after COMPLETE.  The tick that finds the session
\* COMPLETE is the last one: after it no interval timer of the decoder is
\* active, although the caller has not called stop().
C30_TickingStopsAfterComplete ==
    [][(state = "COMPLETE" /\ DecoderSample) => intervals' = {}]_vars

\* C31 as stated: START timeout is surfaced.  A tick in DETECT_START that
\* samples OFF more than 1.5 x START_DURATION into the wait calls the error
\* callback and leaves the receiver in its failed state (IDLE).
C31_StartTimeoutSurfaced ==
    [][\A b \in Samples(state), dt \in TickSteps(rafPending) :
          (/\ state = "DETECT_START"
           /\ ~isLightOn(b, baselineBrightness)
           /\ 2 * Min(elapsed + dt, ElapsedCap) > 3 * START_DURATION
           /\ TickSaw(b, dt))
          => (errors' # errors /\ state' = "IDLE")]_vars

\* C31 as amended: the wait for START has no timeout.  No tick in
\* DETECT_START calls a callback or ends the session: it stays in
\* DETECT_START or begins READ_BITS; and the tick that samples OFF more than
\* 1.5 x START_DURATION into the wait starts the wait again.
C31_StartWaitHasNoTimeout ==
    [][\A b \in Samples(state), dt \in TickSteps(rafPending) :
          (state = "DETECT_START" /\ TickSaw(b, dt))
          => (/\ errors' = errors
              /\ decoded' = decoded
              /\ state' \in {"DETECT_START", "READ_BITS"}
              /\ (/\ ~isLightOn(b, baselineBrightness)
                  /\ 2 * Min(elapsed + dt, ElapsedCap) > 3 * START_DURATION)
                   => (state' = "DETECT_START" /\ elapsed' = 0))]_vars

\* the receiver waits for START with its timer at the start of a wait, as
\* after a re-arm; no callback was called and its one tick chain runs on
C31_Witness ==
    /\ state = "DETECT_START"
    /\ elapsed = 0
    /\ errors = <<>>
    /\ decoded = <<>>
    /\ ~stopped
    /\ rafPending = {animationFrameId}

(***************************************************************************)
(* The receiver ticked at a bounded period, with the time since it entered  *)
(* READ_BITS measured                                                       *)
(***************************************************************************)
\* tick periods of the receiver's frame callbacks; the longest is the tick period
PatiencePeriods == {100, 350}
TickPeriod == CHOOSE p \in PatiencePeriods : \A q \in PatiencePeriods : q <= p

\* 8 x (bitDurationMs + tick period) + 1.5 x endDurationMs + one tick period
PatienceBound ==
    8 * (BIT_DURATION + TickPeriod) + (3 * END_DURATION) \div 2 + TickPeriod

\* GateSimulator.startListening, from where the time is measured anew
PatienceStart ==
    /\ SetRx(start(reset(Rx)))
    /\ readingFor' = 0
    /\ UNCHANGED <<heldCancel, seenLevel, phoneVars, camVars, decVars, gateVars, pfVars, linkVars, txVars>>

\* the browser runs the pending frame callback of the receiver; the time
\* runs while the receiver reads bits or waits for END
PatienceTick ==
    /\ \E f \in rafPending, b \in Samples(state), dt \in PatiencePeriods :
          /\ SetRx(animate(Rx, f, b, dt))
          /\ readingFor' = IF state \in {"READ_BITS", "DETECT_END"}
                           THEN Min(readingFor + dt, PatienceBound + TickPeriod)
                           ELSE readingFor
    /\ UNCHANGED <<heldCancel, seenLevel, phoneVars, camVars, decVars, gateVars, pfVars, linkVars, txVars>>

NextPatience == PatienceStart \/ PatienceTick

SpecPatience == Init /\ [][NextPatience]_vars

\* C32: Bounded patience after START.  A session that has entered READ_BITS
\* has called the decoded or the error callback before more than
\* PatienceBound milliseconds have passed since: the time measured never
\* exceeds the bound, and it stops only in COMPLETE or IDLE with a callback
\* called.
C32_BoundedPatience ==
    /\ readingFor <= PatienceBound
    /\ state \in {"COMPLETE", "IDLE"} /\ readingFor > 0 => SessionEnded

\* the slowest session: every bit read by a tick that came a whole tick
\* period after two prompt ticks that were too early, the light still ON at
\* 1.5 x END_DURATION, and the END timeout one tick period later
C32_Witness ==
    /\ state = "IDLE"
    /\ errors = <<EndTimeoutMessage>>
    /\ readingFor = 8 * (200 + TickPeriod)
                    + (3 * END_DURATION) \div 2 + TickPeriod

(***************************************************************************)
(* Calls of sendGateFlash one after the other.  Every call takes the same   *)
(* element 'gate-flash-overlay' from the document, so the overlay of the    *)
(* call before is the overlay of the next.                                  *)
(***************************************************************************)
\* the caller calls sendGateFlash(v, onComplete) when no call was made yet or
\* the transmission of the call before has finished or was cancelled, and
\* keeps the cancel function of the call before
TxSend ==
    /\ txVariant \in {"none", "sendGateFlash"}
    /\ txPending = {}
    /\ \E v \in TxFairValues :
          SetTx([sendGateFlash(v) EXCEPT
                    !.overlay.backgroundColor = overlay.backgroundColor])
    /\ heldCancel' = (txVariant # "none")
    /\ UNCHANGED <<readingFor, seenLevel, phoneVars, camVars, decVars, gateVars, pfVars, rxVars, linkVars>>

\* the caller calls the cancel function of the call before: isCancelled =
\* true and cleanup() in that call's closure, whose animationFrameId is null
\* since its own cleanup(), on the overlay element they share
EarlierCancel ==
    /\ heldCancel
    /\ overlay' = [display |-> "none", backgroundColor |-> "transparent"]
    /\ UNCHANGED <<txVariant, txValue, currentStep, txStarted, stepElapsed,
                   isCancelled, txHandle, txPending, onCompleteCalls>>
    /\ UNCHANGED <<appVars, decVars, gateVars, pfVars, rxVars, linkVars>>

NextShared == TxSend \/ TxTick \/ TxCancel \/ EarlierCancel

SpecShared == Init /\ [][NextShared]_vars

\* C33: One transmit sequence at a time on the renderer.  While a
\* transmission is active (not cancelled, its frame callback pending) the
\* overlay is displayed, and calling the cancel function of an earlier
\* transmission leaves the overlay as the active one rendered it.
C33_ActiveSymbolStays ==
    /\ []((txVariant = "sendGateFlash" /\ ~isCancelled /\ txPending # {})
            => overlay.display = "block")
    /\ [][(EarlierCancel /\ ~isCancelled /\ txPending # {})
            => overlay' = overlay]_vars

(***************************************************************************)
(* What the screen shows.  sendGateFlash and flashScreenRAF set             *)
(* style.transition = 'none', so the overlay shows the colour of            *)
(* style.backgroundColor.  flashScreen.executeStep sets                     *)
(* style.transition = `background-color ${step.duration}ms linear` with     *)
(* every colour, so the overlay moves linearly from the colour it showed    *)
(* to the new one over the duration of the step.                            *)
(***************************************************************************)
\* the grey level of a background colour
Level(color) == IF color = White THEN 255 ELSE 0

\* times after the colour of the current step was set at which the camera
\* looks at the overlay
LookOffsets == {100, 200, 300}

\* the level the overlay shows tau milliseconds after the colour of step
\* t.currentStep + 1 (a bit or END) was set; the transition of the step
\* before it has run to its end, its timeout firing no earlier than its
\* duration
rendered(t, tau) ==
    IF t.variant = "flashScreen"
    THEN LET step == steps(t.value)[t.currentStep + 1]
             from == Level(steps(t.value)[t.currentStep].color)
             to   == Level(step.color)
         IN  IF tau >= step.duration THEN to
             ELSE from + ((to - from) * tau) \div step.duration
    ELSE Level(t.overlay.backgroundColor)

\* the camera looks at the overlay while a sender shows a bit or END
TxLook ==
    /\ txVariant # "none"
    /\ ~isCancelled
    /\ currentStep \in 1..9
    /\ overlay.backgroundColor \in {White, Black}
    /\ \E tau \in LookOffsets : seenLevel' = rendered(Tx, tau)
    /\ UNCHANGED <<readingFor, heldCancel, phoneVars, camVars>>
    /\ UNCHANGED <<decVars, gateVars, pfVars, rxVars, linkVars, txVars>>

NextLook == TxTick \/ TxTimeout \/ TxCancel \/ TxLook

SpecLook == InitTxFair /\ [][NextLook]_vars

\* C34: Transmitter variants agree.  sendGateFlash, flashScreenRAF and
\* flashScreen build the same 10 steps for every byte; whenever the camera
\* looks, the overlay shows the ON or OFF symbol its sender last set; and
\* onComplete is called once, by a step past END.
C34_VariantsAgree ==
    /\ [](\A v \in TxFairValues :
             sequence(v) = rafSequence(v) /\ rafSequence(v) = steps(v))
    /\ [][seenLevel' # seenLevel
            => seenLevel' = Level(overlay.backgroundColor)]_vars
    /\ [][onCompleteCalls' # onCompleteCalls
            => (currentStep >= 10 /\ onCompleteCalls' = 1)]_vars

\* C35: Every step is shown.  In sendGateFlash and flashScreenRAF the tick
\* that moves the sequencer past a step has itself put that step's colour on
\* the displayed overlay, where it stays until the next tick; so each of the
\* 10 steps is on screen for at least one tick, however late the ticks.
C35_EveryStepShown ==
    /\ []((/\ txVariant \in {"sendGateFlash", "flashScreenRAF"}
           /\ txStarted /\ ~isCancelled /\ txPending # {}
           /\ currentStep \in 1..10 /\ stepElapsed = 0)
            => overlay = [display |-> "block",
                          backgroundColor |->
                              rafSequence(txValue)[currentStep].color])
    /\ [][(/\ txVariant \in {"sendGateFlash", "flashScreenRAF"}
           /\ currentStep' # currentStep)
            => (/\ txStarted
                /\ overlay'.display = "block"
                /\ overlay'.backgroundColor =
                       sequence(txValue)[currentStep + 1].color)]_vars

\* flashScreenRAF has just moved past the second bit of 170, a 0, on the
\* tick that showed it
C35_Witness ==
    /\ txVariant = "flashScreenRAF"
    /\ txValue = 170
    /\ ~isCancelled
    /\ currentStep = 3
    /\ stepElapsed = 0
    /\ overlay = [display |-> "block", backgroundColor |-> Black]
    /\ txPending # {}

(***************************************************************************)
(* Callbacks that call back into the receiver.  onError and                 *)
(* onResponseReceived run inside animate; a caller that restarts listening   *)
(* from inside them calls reset() and start() before the rest of the tick   *)
(* runs.                                                                    *)
(***************************************************************************)
\* the caller's callback: receiver.reset(); receiver.start(video, canvas)
restart(r) == start(reset(r))

\* case 'DETECT_END' with every callback followed by restart
DetectEndTickRestart(r, brightness) ==
    IF ~r.isCalibrated \/ r.baselineBrightness = <<>>
    THEN stop(restart(onError(r, "Baseline lost during END detection")))
    ELSE LET isOnEnd == isLightOn(brightness, r.baselineBrightness)
         IN  IF ~isOnEnd /\ r.elapsed >= END_DURATION
             THEN [restart(callDecodeResponse(r)) EXCEPT !.state = "COMPLETE"]
             ELSE IF isOnEnd /\ 2 * r.elapsed > 3 * END_DURATION
             THEN stop(restart(onError(r, "END signal not detected properly - light still on")))
             ELSE r

\* the tick in DETECT_END calls onError or decodeResponse
CallbackDue(r, brightness, dt) ==
    /\ r.state = "DETECT_END"
    /\ \/ ~r.isCalibrated \/ r.baselineBrightness = <<>>
       \/ /\ ~isLightOn(brightness, r.baselineBrightness)
          /\ Min(r.elapsed + dt, ElapsedCap) >= END_DURATION
       \/ /\ isLightOn(brightness, r.baselineBrightness)
          /\ 2 * Min(r.elapsed + dt, ElapsedCap) > 3 * END_DURATION

\* the browser runs the pending frame callback of a receiver whose callbacks
\* restart listening, on a tick that makes a callback
RestartTick ==
    /\ state = "DETECT_END"
    /\ Cardinality(rafPending) < MaxChains
    /\ \E f \in rafPending, b \in Samples(state), dt \in TickSteps(rafPending) :
          /\ CallbackDue(Rx, b, dt)
          /\ SetRx(requestFrame(DetectEndTickRestart(
                       [Rx EXCEPT !.rafPending = @ \ {f},
                                  !.elapsed = Min(@ + dt, ElapsedCap)], b)))
    /\ UNCHANGED <<appVars, decVars, gateVars, pfVars, linkVars, txVars>>

\* a tick that makes no callback
QuietTick ==
    /\ \E f \in rafPending, b \in Samples(state), dt \in TickSteps(rafPending) :
          /\ ~CallbackDue(Rx, b, dt)
          /\ SetRx(animate(Rx, f, b, dt))
    /\ UNCHANGED <<appVars, decVars, gateVars, pfVars, linkVars, txVars>>

\* the caller's own startListening, while fewer than MaxChains callbacks wait
RestartListening == Cardinality(rafPending) < MaxChains /\ StartListening

NextRestart == RestartListening \/ QuietTick \/ RestartTick

SpecRestart == Init /\ [][NextRestart]_vars

\* C36: Callback re-entrancy.  A tick whose error or decoded callback calls
\* reset() and start() leaves the receiver running the new session: state
\* CALIBRATE, one frame callback pending, and that one the session's own.
C36_RestartSurvivesTick ==
    [][(state = "DETECT_END" /\ RestartTick)
         => (/\ state' = "CALIBRATE"
             /\ rafPending' = {animationFrameId'}
             /\ baselineSamples' = <<>>)]_vars

(***************************************************************************)
(* PhoneApp: the component decodes a challenge with its FlashDecoder,       *)
(* counts down RESPONSE_DELAY, sends the response with flashScreenRAF and   *)
(* resets itself 3000 ms after a finished transmission or a decode error.   *)
(* The camera is initialized, so reset() restarts the decoder.              *)
(***************************************************************************)
RESPONSE_DELAY == 3000
countdownInterval == 100

\* pending automatic reset timers the model follows at a time
MaxResetTimers == 2

\* the challenges the gate flashes at the phone
PhoneChallenges == {5, 250}

\* the decoder effect has run: new FlashDecoder(...); decoder.start(video, canvas)
InitPhone ==
    /\ GateIdle
    /\ AppIdle
    /\ PfIdle
    /\ LinkIdle
    /\ TxIdle
    /\ RxInit([NewReceiver EXCEPT !.state = "DETECT_START", !.elapsed = 0])
    /\ sampleInterval = 1
    /\ intervals = {1}

\* setTimeout(() => { reset() }, 3000) when the callback was called
afterCallback(timers, called) ==
    IF called THEN [timers EXCEPT !.new = @ + 1] ELSE timers

\* the decoder's interval timer fires: sample(), and inside it
\* handleChallengeDecoded (the countdown starts) or handleDecodeError (an
\* automatic reset is scheduled); the bits the camera shows are those of a
\* challenge
PhoneSample ==
    /\ intervals # {}
    /\ \E b \in DecoderSamples, dt \in DecoderSteps :
          LET d == sample(Decoder, b, dt)
          IN  /\ \E v \in PhoneChallenges :
                    d.bits = SubSeq(numberToBits(v), 1, Len(d.bits))
              /\ (d.errors # errors)
                    => resetTimers.old + resetTimers.new < MaxResetTimers
              /\ SetDecoder(d)
              /\ remainingTime' = IF d.decoded # decoded THEN RESPONSE_DELAY
                                  ELSE remainingTime
              /\ resetTimers' = afterCallback(resetTimers, d.errors # errors)
    /\ UNCHANGED <<readingFor, heldCancel, seenLevel, camVars>>
    /\ UNCHANGED <<gateVars, pfVars, linkVars, txVars>>

\* the countdown's interval timer fires; at 0 it clears itself and calls
\* transmitResponse((challenge + 10) % 256)
PhoneCountdown ==
    /\ remainingTime > 0
    /\ decoded # <<>>
    /\ IF remainingTime - countdownInterval <= 0
       THEN /\ remainingTime' = 0
            /\ SetTx([flashScreenRAF((decoded[Len(decoded)] + 10) % 256) EXCEPT
                         !.overlay.backgroundColor = overlay.backgroundColor])
       ELSE /\ remainingTime' = remainingTime - countdownInterval
            /\ UNCHANGED txVars
    /\ UNCHANGED <<readingFor, heldCancel, seenLevel, resetTimers, camVars>>
    /\ UNCHANGED <<decVars, gateVars, pfVars, rxVars, linkVars>>

\* the browser runs the frame callback of the response; its onComplete
\* schedules an automatic reset
PhoneTxTick ==
    /\ txVariant = "flashScreenRAF"
    /\ \E f \in txPending, dt \in TxTickPeriods :
          LET t == rafAnimate(Tx, f, dt)
          IN  /\ (t.onCompleteCalls > onCompleteCalls)
                    => resetTimers.old + resetTimers.new < MaxResetTimers
              /\ SetTx(t)
              /\ resetTimers' =
                     afterCallback(resetTimers, t.onCompleteCalls > onCompleteCalls)
    /\ UNCHANGED <<readingFor, heldCancel, seenLevel, remainingTime, camVars>>
    /\ UNCHANGED <<decVars, gateVars, pfVars, rxVars, linkVars>>

\* PhoneApp.reset without its setState calls: cancel the flash, clear the
\* countdown, decoder.reset(), decoder.start(video, canvas)
phoneReset ==
    /\ SetTx(IF txVariant = "none" THEN Tx ELSE cancel(Tx))
    /\ remainingTime' = 0
    /\ SetDecoder(decoderStart(decoderReset(Decoder)))
    /\ UNCHANGED <<readingFor, heldCancel, seenLevel, camVars>>
    /\ UNCHANGED <<gateVars, pfVars, linkVars>>

\* the user presses Reset: handleReset calls reset(); the timers that wait
\* were all set before this reset
PhoneHandleReset ==
    /\ phoneReset
    /\ resetTimers' = [old |-> resetTimers.old + resetTimers.new, new |-> 0]

\* one of the waiting setTimeout(() => reset(), 3000) timers fires
PhoneAutoReset ==
    /\ resetTimers.old + resetTimers.new > 0
    /\ phoneReset
    /\ resetTimers' = [old |-> resetTimers.old + resetTimers.new - 1, new |-> 0]

NextPhone ==
    \/ PhoneSample
    \/ PhoneCountdown
    \/ PhoneTxTick
    \/ PhoneHandleReset
    \/ PhoneAutoReset

SpecPhone == InitPhone /\ [][NextPhone]_vars

\* C37: Phone app reset cancels pending work.  When every waiting automatic
\* reset timer was set before the last reset(), a timer that fires leaves
\* the decode session, the countdown and the overlay as they are; and a
\* response flash starts only from the countdown of a decoded challenge.
C37_ResetCancelsPending ==
    /\ [][(/\ resetTimers.new = 0
           /\ resetTimers'.old + resetTimers'.new
                  < resetTimers.old + resetTimers.new)
            => (/\ sampleInterval' = sampleInterval
                /\ state' = state /\ bits' = bits /\ elapsed' = elapsed
                /\ remainingTime' = remainingTime
                /\ UNCHANGED txVars)]_vars
    /\ [][(txVariant' = "flashScreenRAF" /\ txPending' # {} /\ txPending = {})
            => (remainingTime > 0 /\ decoded # <<>>)]_vars

\* C38: Baseline present while detecting.  Through start(), stop(), reset()
\* and ticks, a receiver in DETECT_START, READ_BITS or DETECT_END has a
\* baseline and is calibrated, and no baseline-lost error is ever reported.
C38_BaselineWhileDetecting ==
    /\ state \in {"DETECT_START", "READ_BITS", "DETECT_END"}
          => (baselineBrightness # <<>> /\ isCalibrated)
    /\ \A i \in 1..Len(errors) : errors[i] \notin BaselineLostMessages

\* start() was called over a running session and the receiver has read its
\* 8 bits with the baseline of the second calibration
C38_Witness ==
    /\ state = "DETECT_END"
    /\ Cardinality(rafPending) = 2
    /\ isCalibrated
    /\ baselineBrightness = <<BASELINE_SAMPLES * OffLevel, BASELINE_SAMPLES>>

\* C39: Bit index matches bit frame.  In every reachable state of the
\* receiver currentBitIndex equals the length of the bits array, which never
\* exceeds 8.
C39_IndexIsFrameLength ==
    /\ currentBitIndex = Len(bits)
    /\ Len(bits) <= 8

\* the receiver has read five bits and reset() has not run since
C39_Witness ==
    /\ state = "READ_BITS"
    /\ currentBitIndex = 5
    /\ bits = <<1, 0, 1, 1, 0>>

(***************************************************************************)
(* useCamera.  initializeCamera is an async function: it awaits             *)
(* getUserMedia, stores the stream, and when the video element is there     *)
(* awaits its loadedmetadata event before it sets isInitialized.            *)
(* stopCamera and the unmount cleanup run between its steps.                *)
(***************************************************************************)
\* calls of initializeCamera the model follows
MaxCamCalls == 3

\* the state of GateSimulator that the hook does not set
gateOwnVars ==
    <<hasReceiver, handlerChallenge, completeInitialized, challenge,
      receivedResponse, accessResult, isSending, isListening>>

\* what no step of the hook changes
camFrame ==
    /\ UNCHANGED <<readingFor, heldCancel, seenLevel, phoneVars>>
    /\ UNCHANGED <<gateOwnVars, decVars, pfVars, rxVars, linkVars, txVars>>

\* initializeCamera() up to its first await, called when no earlier call is
\* still running (the mount effect, handleRetry)
CamInitialize ==
    /\ mounted
    /\ camPc \in {"idle", "done", "failed"}
    /\ camCalls < MaxCamCalls
    /\ camCalls' = camCalls + 1
    /\ camPc' = "getUserMedia"
    /\ stoppedSince' = FALSE
    /\ UNCHANGED <<isInitialized, streamRef, srcObject, liveTracks, mounted>>
    /\ camFrame

\* getUserMedia resolves: streamRef.current = stream; with a video element,
\* srcObject = stream and the wait for loadedmetadata, else the function ends
CamStreamGranted ==
    /\ camPc = "getUserMedia"
    /\ streamRef' = camCalls
    /\ liveTracks' = liveTracks \cup {camCalls}
    /\ srcObject' = IF mounted THEN camCalls ELSE srcObject
    /\ camPc' = IF mounted THEN "metadata" ELSE "done"
    /\ UNCHANGED <<isInitialized, camCalls, mounted, stoppedSince>>
    /\ camFrame

\* getUserMedia rejects: the catch block, setIsInitialized(false)
CamStreamDenied ==
    /\ camPc = "getUserMedia"
    /\ isInitialized' = FALSE
    /\ camPc' = "failed"
    /\ UNCHANGED <<camCalls, streamRef, srcObject, liveTracks, mounted, stoppedSince>>
    /\ camFrame

\* the video element fires loadedmetadata for the stream it was given:
\* play(), resolve(), setIsInitialized(true)
CamMetadata ==
    /\ camPc = "metadata"
    /\ mounted
    /\ srcObject # 0
    /\ isInitialized' = TRUE
    /\ camPc' = "done"
    /\ UNCHANGED <<camCalls, streamRef, srcObject, liveTracks, mounted, stoppedSince>>
    /\ camFrame

\* stopCamera() with the video element there or gone
stopCamera(hasVideo) ==
    /\ liveTracks' = IF streamRef # 0 THEN liveTracks \ {streamRef} ELSE liveTracks
    /\ streamRef' = 0
    /\ srcObject' = IF hasVideo THEN 0 ELSE srcObject
    /\ isInitialized' = FALSE
    /\ stoppedSince' = TRUE

\* the component calls stopCamera()
CamStop ==
    /\ mounted
    /\ stopCamera(TRUE)
    /\ UNCHANGED <<camPc, camCalls, mounted>>
    /\ camFrame

\* the component unmounts: React detaches videoRef and runs the cleanups,
\* which call stopCamera()
CamUnmount ==
    /\ mounted
    /\ mounted' = FALSE
    /\ stopCamera(FALSE)
    /\ UNCHANGED <<camPc, camCalls>>
    /\ camFrame

NextCamera ==
    \/ CamInitialize
    \/ CamStreamGranted
    \/ CamStreamDenied
    \/ CamMetadata
    \/ CamStop
    \/ CamUnmount

SpecCamera == Init /\ [][NextCamera]_vars

\* C40: Camera released on stop.  Once stopCamera() has run after the latest
\* call of initializeCamera() and that call has finished, no stream has a
\* running track and isInitialized is false.
C40_CameraReleased ==
    (stoppedSince /\ camPc \in {"done", "failed"})
        => (liveTracks = {} /\ ~isInitialized)
====
